---- MODULE Spec2Model ----
(***************************************************************************)
(* State-machine model of the cross-chain bridge core:                     *)
(*   - MasterBridge           (src/src/bridges/AssetManager.ts, 92-292)    *)
(*   - AssetManager registry  (src/src/bridges/AssetManager.ts, 3-89)      *)
(*   - AvalancheBridge        (src/src/bridges/avalanche/AvalancheBridge.ts)*)
(*   - SecurityManager        (src/src/security/SecurityManager.ts)        *)
(* Each component has its own specification over its own variables; the    *)
(* variables of the other components stay at their initial values.         *)
(***************************************************************************)
EXTENDS Integers, Sequences, FiniteSets, Bags, TLC

\* ------------------------------------------------------------------ bounds
\* Largest amount a caller passes (callers also pass 0 and -1).
MaxAmt == 2
\* Largest balance the model follows (bigint is unbounded).
MaxBal == 2
\* How far the model follows the clock (Date.now()) past construction.
MaxTicks == 2
MaxStake == 2
MaxProtocols == 2
MaxPending == 3
\* Longest list of signatures a caller submits.
MaxSigs == 3
\* How many balance calls the concurrent callers issue.
MaxConcCalls == 3

\* ------------------------------------------------------------- input sets
Symbols == {"USDC", "USDT"}
TokenAddrs == {"0xT1", "0xT2"}
Amounts == -1..MaxAmt
BalRange == -1..MaxBal
ValidatorIds == {"v1"}
TxHashes == {"h1"}

\* --------------------------------------------------------------- Map<K,V>
EmptyMap == <<>>
MapSet(m, k, v) == [x \in (DOMAIN m) \cup {k} |-> IF x = k THEN v ELSE m[x]]
MapDelete(m, k) == [x \in (DOMAIN m) \ {k} |-> m[x]]

VARIABLES
    \* MasterBridge
    mbInitialized,   \* private initialized
    mbValidators,    \* private validators: Map<string, ValidatorInfo> (its keys)
    mbAssets,        \* private assets: Map<string, AssetInfo>
    mbTransactions,  \* private transactions: Map<string, Transaction>
    mbPaused,        \* private paused
    mbCall,          \* the last call and the error it threw ("none": it returned)
    mbLedger,        \* history: per symbol, the net of the successful operations
    \* AssetManager (the registry)
    amAssets,          \* private assets: Map<string, AssetInfo>
    amTokenAddresses,  \* private tokenAddresses: Map<string, string>
    amCall,            \* the last call, its arguments and the error it threw
    amPrev,            \* the call before the last
    \* SecurityManager
    secNow,                   \* Date.now()
    secBlacklistEnabled,      \* config.blacklistEnabled
    secWhitelistEnabled,      \* config.whitelistEnabled
    secTransactionHistory,    \* private transactionHistory: Map<string, number[]>
    secEmergencyMode,         \* private emergencyMode
    secBlacklist,             \* private blacklist: Set<string>
    secWhitelist,             \* private whitelist: Set<string>
    secLastEmergencyTrigger,  \* private lastEmergencyTrigger
    secCall,                  \* the last call and the error it threw
    secAdmitted,              \* history: per sender, when validateTransaction admitted
    secLastDisable,           \* history: when disableEmergencyMode last succeeded
    \* AvalancheBridge
    avAssets,        \* private assets: Map<string, AvalancheAsset>
    avTransactions,  \* private transactions: Map<string, Transaction>
    avPaused,        \* private paused
    avInflight,      \* the calls suspended at their await (a bag of continuations)
    avCall,          \* the last call that returned or threw, and its error
    \* Validator
    valStakeAmount,   \* private stakeAmount: bigint
    valActive,        \* private active
    valSlashedAmount, \* private slashedAmount: bigint
    valSignatures,    \* private signatures: Map<string, string>
    valCall,          \* the last call, its argument, its error and its value
    valSigned,        \* history: the hashes signTransaction completed on
    valSlashed,       \* history: a slash has succeeded
    \* AvalancheCeloBridge (its assetManager is the registry above, its
    \* validator the Validator above)
    cbInitialized,        \* private isBridgeInitialized
    cbPaused,             \* private isPaused
    cbSupportedTokens,    \* private supportedTokens: Map<string, {...}>
    cbDailyTransfers,     \* private dailyTransfers: Map<string, number>
    cbProcessedTransfers, \* private processedTransfers (the hashes mapped to true)
    cbCall,               \* the last call, its arguments, its error and its value
    cbInitSuccesses,      \* history: how many initialize calls returned
    cbAcceptedTotal,      \* history: per token, the amounts accepted today
    cbNetSupply,          \* history: per symbol, locks + mints - unlocks - burns
    \* CrossChainOptimizer and its SkaleOptimizer
    optProtocols,         \* chainConfigs: the bridgeProtocols of the source chains
    optMaxBatchSize,      \* SkaleOptimizer config.maxBatchSize
    optPendingTransfers,  \* private pendingTransfers: CrossChainTransfer[]
    optSubmitted,         \* the batches the last call gave to batchTransfer
    optCall               \* the last call, its arguments, its error and its value
VARIABLES
    \* SecurityManager, multi-signature
    secSigners,   \* private signers: Map<string, boolean> (its keys)
    sigCall       \* the last signer call, its arguments, its error and its value

sigVars == <<secSigners, sigCall>>
VARIABLES
    \* MultiChainWallet (its securityManager is the SecurityManager above)
    wBridges,    \* private bridges: Map<string, IBridge> (its keys)
    wCalls,      \* per caller, the bridgeTokens call: where it is suspended, its
                 \* error, and what it has done so far
    wHistory,    \* historyManager storage: the hashes recorded
    wAnalytics   \* analyticsManager metrics: the hashes recorded

walletVars == <<wBridges, wCalls, wHistory, wAnalytics>>
VARIABLES
    \* MasterBridge, calls issued without waiting for one another
    mbcPending,  \* per caller, the call whose promise the caller is awaiting
    mbcLog       \* history: the calls in the order their callers resumed

concVars == <<mbcPending, mbcLog>>
VARIABLES
    \* AvalancheBitcoinBridge (over the same registry and validator)
    bbInitialized,      \* private isBridgeInitialized
    bbSupportedTokens,  \* private supportedTokens: Map<string, {...}>
    bbCall              \* the last call and its error

bbVars == <<bbInitialized, bbSupportedTokens, bbCall>>

mbVars == <<mbInitialized, mbValidators, mbAssets, mbTransactions, mbPaused,
            mbCall, mbLedger>>

amVars == <<amAssets, amTokenAddresses, amCall, amPrev>>

secVars == <<secNow, secBlacklistEnabled, secWhitelistEnabled,
             secTransactionHistory, secEmergencyMode, secBlacklist, secWhitelist,
             secLastEmergencyTrigger, secCall, secAdmitted, secLastDisable>>

avVars == <<avAssets, avTransactions, avPaused, avInflight, avCall>>

valVars == <<valStakeAmount, valActive, valSlashedAmount, valSignatures, valCall,
             valSigned, valSlashed>>

cbVars == <<cbInitialized, cbPaused, cbSupportedTokens, cbDailyTransfers,
            cbProcessedTransfers, cbCall, cbInitSuccesses, cbAcceptedTotal,
            cbNetSupply>>

optVars == <<optProtocols, optMaxBatchSize, optPendingTransfers, optSubmitted,
             optCall>>

vars == <<mbVars, amVars, secVars, avVars, valVars, cbVars, optVars, sigVars, walletVars, concVars, bbVars>>

\* ---- MasterBridge

ErrPaused == "BridgeError: Bridge is paused"
ErrNotRegistered == "BridgeError: Asset not registered"
ErrAlreadyRegistered == "BridgeError: Asset already registered"
ErrInsufficientLocked == "BridgeError: Insufficient locked amount"
ErrInsufficientMinted == "BridgeError: Insufficient minted amount"
ErrAlreadyInitialized == "BridgeError: Bridge already initialized"
ErrTxNotFound == "BridgeError: Transaction not found"
ErrTxNotPending == "BridgeError: Transaction is not pending"
ErrValidatorExists == "BridgeError: Validator already exists"
ErrValidatorNotFound == "BridgeError: Validator not found"

\* The AssetInfo a registration stores (lastUpdate, a wall-clock stamp no
\* operation reads, is left out).
NewAssetInfo(symbol, tokenAddress) ==
    [tokenAddress |-> tokenAddress, symbol |-> symbol, decimals |-> 18,
     lockedAmount |-> 0, mintedAmount |-> 0, isActive |-> TRUE]

\* Each MB_<method> is the method's body as a function of the fields it reads:
\* the error it throws ("none" when it returns) and the fields it leaves.

MB_initialize(initialized) ==
    IF initialized
    THEN [err |-> ErrAlreadyInitialized, initialized |-> initialized]
    ELSE [err |-> "none", initialized |-> TRUE]

MB_registerAsset(assets, paused, symbol, tokenAddress) ==
    IF paused THEN [err |-> ErrPaused, assets |-> assets]
    ELSE IF symbol \in DOMAIN assets
    THEN [err |-> ErrAlreadyRegistered, assets |-> assets]
    ELSE [err |-> "none",
          assets |-> MapSet(assets, symbol, NewAssetInfo(symbol, tokenAddress))]

MB_unregisterAsset(assets, paused, symbol) ==
    IF paused THEN [err |-> ErrPaused, assets |-> assets]
    ELSE IF symbol \notin DOMAIN assets
    THEN [err |-> ErrNotRegistered, assets |-> assets]
    ELSE [err |-> "none", assets |-> MapDelete(assets, symbol)]

\* lockTokens without the test of paused.
MB_lockTokens_IgnoresPause(assets, paused, symbol, amount) ==
    IF symbol \notin DOMAIN assets
    THEN [err |-> ErrNotRegistered, assets |-> assets]
    ELSE [err |-> "none",
          assets |-> [assets EXCEPT ![symbol].lockedAmount = @ + amount]]

MB_lockTokens(assets, paused, symbol, amount) ==
    IF paused THEN [err |-> ErrPaused, assets |-> assets]
    ELSE IF symbol \notin DOMAIN assets
    THEN [err |-> ErrNotRegistered, assets |-> assets]
    ELSE [err |-> "none",
          assets |-> [assets EXCEPT ![symbol].lockedAmount = @ + amount]]

MB_unlockTokens(assets, paused, symbol, amount) ==
    IF paused THEN [err |-> ErrPaused, assets |-> assets]
    ELSE IF symbol \notin DOMAIN assets
    THEN [err |-> ErrNotRegistered, assets |-> assets]
    ELSE IF assets[symbol].lockedAmount < amount
    THEN [err |-> ErrInsufficientLocked, assets |-> assets]
    ELSE [err |-> "none",
          assets |-> [assets EXCEPT ![symbol].lockedAmount = @ - amount]]

MB_mintTokens_DoubleEntry(assets, paused, symbol, amount) ==
    IF paused THEN [err |-> ErrPaused, assets |-> assets]
    ELSE IF symbol \notin DOMAIN assets
    THEN [err |-> ErrNotRegistered, assets |-> assets]
    ELSE [err |-> "none",
          assets |-> [assets EXCEPT ![symbol].mintedAmount = @ + amount,
                                    ![symbol].lockedAmount = @ + amount]]

MB_mintTokens(assets, paused, symbol, amount) ==
    IF paused THEN [err |-> ErrPaused, assets |-> assets]
    ELSE IF symbol \notin DOMAIN assets
    THEN [err |-> ErrNotRegistered, assets |-> assets]
    ELSE [err |-> "none",
          assets |-> [assets EXCEPT ![symbol].mintedAmount = @ + amount]]

MB_burnTokens_OffByOne(assets, paused, symbol, amount) ==
    IF paused THEN [err |-> ErrPaused, assets |-> assets]
    ELSE IF symbol \notin DOMAIN assets
    THEN [err |-> ErrNotRegistered, assets |-> assets]
    ELSE IF assets[symbol].mintedAmount <= amount
    THEN [err |-> ErrInsufficientMinted, assets |-> assets]
    ELSE [err |-> "none",
          assets |-> [assets EXCEPT ![symbol].mintedAmount = @ - amount]]

MB_burnTokens(assets, paused, symbol, amount) ==
    IF paused THEN [err |-> ErrPaused, assets |-> assets]
    ELSE IF symbol \notin DOMAIN assets
    THEN [err |-> ErrNotRegistered, assets |-> assets]
    ELSE IF assets[symbol].mintedAmount < amount
    THEN [err |-> ErrInsufficientMinted, assets |-> assets]
    ELSE [err |-> "none",
          assets |-> [assets EXCEPT ![symbol].mintedAmount = @ - amount]]

MB_processTransaction(transactions, paused, txHash) ==
    IF paused THEN [err |-> ErrPaused, transactions |-> transactions]
    ELSE IF txHash \notin DOMAIN transactions
    THEN [err |-> ErrTxNotFound, transactions |-> transactions]
    ELSE IF transactions[txHash].status # "PENDING"
    THEN [err |-> ErrTxNotPending, transactions |-> transactions]
    ELSE [err |-> "none",
          transactions |-> [transactions EXCEPT ![txHash].status = "LOCKED"]]

MB_addValidator(validators, paused, validator) ==
    IF paused THEN [err |-> ErrPaused, validators |-> validators]
    ELSE IF validator \in validators
    THEN [err |-> ErrValidatorExists, validators |-> validators]
    ELSE [err |-> "none", validators |-> validators \cup {validator}]

MB_removeValidator(validators, paused, validator) ==
    IF paused THEN [err |-> ErrPaused, validators |-> validators]
    ELSE IF validator \notin validators
    THEN [err |-> ErrValidatorNotFound, validators |-> validators]
    ELSE [err |-> "none", validators |-> validators \ {validator}]

MB_emergencyWithdraw(assets, symbol) ==
    IF symbol \notin DOMAIN assets
    THEN [err |-> ErrNotRegistered, assets |-> assets]
    ELSE [err |-> "none",
          assets |-> [assets EXCEPT ![symbol].lockedAmount = 0,
                                    ![symbol].mintedAmount = 0]]

\* The balances the model follows.
MBInRange(assets) ==
    \A s \in DOMAIN assets :
        assets[s].lockedAmount \in BalRange /\ assets[s].mintedAmount \in BalRange

\* History: the net of the successful lock/unlock/mint/burn amounts of a symbol
\* since it was registered; "tracked" ends when another operation
\* (emergencyWithdraw, unregisterAsset) touches the symbol.
Untracked == [tracked |-> FALSE, sum |-> 0]
LedgerAdd(ledger, symbol, err, delta) ==
    IF err = "none" /\ ledger[symbol].tracked
    THEN [ledger EXCEPT ![symbol].sum = @ + delta]
    ELSE ledger

MBInit ==
    /\ mbInitialized = FALSE
    /\ mbValidators = {}
    /\ mbAssets = EmptyMap
    /\ mbTransactions = EmptyMap
    /\ mbPaused = FALSE
    /\ mbCall = [op |-> "constructor", err |-> "none"]
    /\ mbLedger = [s \in Symbols |-> Untracked]

AMInit ==
    /\ amAssets = EmptyMap
    /\ amTokenAddresses = EmptyMap
    /\ amCall = [op |-> "constructor", symbol |-> "", tokenAddress |-> "",
                 err |-> "none"]
    /\ amPrev = [op |-> "constructor", symbol |-> "", tokenAddress |-> "",
                 err |-> "none"]

MBFrame == UNCHANGED <<amVars, secVars, avVars, valVars, cbVars, optVars, sigVars, walletVars, concVars, bbVars>>

Call_MB_initialize ==
    LET r == MB_initialize(mbInitialized) IN
    /\ mbInitialized' = r.initialized
    /\ mbCall' = [op |-> "initialize", err |-> r.err]
    /\ UNCHANGED <<mbValidators, mbAssets, mbTransactions, mbPaused, mbLedger>>
    /\ MBFrame

Call_MB_registerAsset(symbol, tokenAddress) ==
    LET r == MB_registerAsset(mbAssets, mbPaused, symbol, tokenAddress) IN
    /\ mbAssets' = r.assets
    /\ mbCall' = [op |-> "registerAsset", err |-> r.err]
    /\ mbLedger' = IF r.err = "none"
                   THEN [mbLedger EXCEPT ![symbol] = [tracked |-> TRUE, sum |-> 0]]
                   ELSE mbLedger
    /\ UNCHANGED <<mbInitialized, mbValidators, mbTransactions, mbPaused>>
    /\ MBFrame

Call_MB_unregisterAsset(symbol) ==
    LET r == MB_unregisterAsset(mbAssets, mbPaused, symbol) IN
    /\ mbAssets' = r.assets
    /\ mbCall' = [op |-> "unregisterAsset", err |-> r.err]
    /\ mbLedger' = IF r.err = "none"
                   THEN [mbLedger EXCEPT ![symbol] = Untracked]
                   ELSE mbLedger
    /\ UNCHANGED <<mbInitialized, mbValidators, mbTransactions, mbPaused>>
    /\ MBFrame

Call_MB_lockTokens(symbol, amount) ==
    LET r == MB_lockTokens(mbAssets, mbPaused, symbol, amount) IN
    /\ MBInRange(r.assets)
    /\ mbAssets' = r.assets
    /\ mbCall' = [op |-> "lockTokens", err |-> r.err]
    /\ mbLedger' = LedgerAdd(mbLedger, symbol, r.err, amount)
    /\ UNCHANGED <<mbInitialized, mbValidators, mbTransactions, mbPaused>>
    /\ MBFrame

Call_MB_unlockTokens(symbol, amount) ==
    LET r == MB_unlockTokens(mbAssets, mbPaused, symbol, amount) IN
    /\ MBInRange(r.assets)
    /\ mbAssets' = r.assets
    /\ mbCall' = [op |-> "unlockTokens", err |-> r.err]
    /\ mbLedger' = LedgerAdd(mbLedger, symbol, r.err, 0 - amount)
    /\ UNCHANGED <<mbInitialized, mbValidators, mbTransactions, mbPaused>>
    /\ MBFrame

Call_MB_mintTokens(symbol, amount) ==
    LET r == MB_mintTokens(mbAssets, mbPaused, symbol, amount) IN
    /\ MBInRange(r.assets)
    /\ mbAssets' = r.assets
    /\ mbCall' = [op |-> "mintTokens", err |-> r.err]
    /\ mbLedger' = LedgerAdd(mbLedger, symbol, r.err, amount)
    /\ UNCHANGED <<mbInitialized, mbValidators, mbTransactions, mbPaused>>
    /\ MBFrame

Call_MB_burnTokens(symbol, amount) ==
    LET r == MB_burnTokens(mbAssets, mbPaused, symbol, amount) IN
    /\ MBInRange(r.assets)
    /\ mbAssets' = r.assets
    /\ mbCall' = [op |-> "burnTokens", err |-> r.err]
    /\ mbLedger' = LedgerAdd(mbLedger, symbol, r.err, 0 - amount)
    /\ UNCHANGED <<mbInitialized, mbValidators, mbTransactions, mbPaused>>
    /\ MBFrame

Call_MB_processTransaction(txHash) ==
    LET r == MB_processTransaction(mbTransactions, mbPaused, txHash) IN
    /\ mbTransactions' = r.transactions
    /\ mbCall' = [op |-> "processTransaction", err |-> r.err]
    /\ UNCHANGED <<mbInitialized, mbValidators, mbAssets, mbPaused, mbLedger>>
    /\ MBFrame

Call_MB_addValidator(validator) ==
    LET r == MB_addValidator(mbValidators, mbPaused, validator) IN
    /\ mbValidators' = r.validators
    /\ mbCall' = [op |-> "addValidator", err |-> r.err]
    /\ UNCHANGED <<mbInitialized, mbAssets, mbTransactions, mbPaused, mbLedger>>
    /\ MBFrame

Call_MB_removeValidator(validator) ==
    LET r == MB_removeValidator(mbValidators, mbPaused, validator) IN
    /\ mbValidators' = r.validators
    /\ mbCall' = [op |-> "removeValidator", err |-> r.err]
    /\ UNCHANGED <<mbInitialized, mbAssets, mbTransactions, mbPaused, mbLedger>>
    /\ MBFrame

Call_MB_pause ==
    /\ mbPaused' = TRUE
    /\ mbCall' = [op |-> "pause", err |-> "none"]
    /\ UNCHANGED <<mbInitialized, mbValidators, mbAssets, mbTransactions, mbLedger>>
    /\ MBFrame

Call_MB_unpause ==
    /\ mbPaused' = FALSE
    /\ mbCall' = [op |-> "unpause", err |-> "none"]
    /\ UNCHANGED <<mbInitialized, mbValidators, mbAssets, mbTransactions, mbLedger>>
    /\ MBFrame

Call_MB_emergencyWithdraw(symbol) ==
    LET r == MB_emergencyWithdraw(mbAssets, symbol) IN
    /\ mbAssets' = r.assets
    /\ mbCall' = [op |-> "emergencyWithdraw", err |-> r.err]
    /\ mbLedger' = IF r.err = "none"
                   THEN [mbLedger EXCEPT ![symbol] = Untracked]
                   ELSE mbLedger
    /\ UNCHANGED <<mbInitialized, mbValidators, mbTransactions, mbPaused>>
    /\ MBFrame

\* Asset accounting of MasterBridge: every operation that reads or writes assets.
MBNext ==
    \/ \E s \in Symbols, t \in TokenAddrs : Call_MB_registerAsset(s, t)
    \/ \E s \in Symbols : Call_MB_unregisterAsset(s)
    \/ \E s \in Symbols, a \in Amounts : Call_MB_lockTokens(s, a)
    \/ \E s \in Symbols, a \in Amounts : Call_MB_unlockTokens(s, a)
    \/ \E s \in Symbols, a \in Amounts : Call_MB_mintTokens(s, a)
    \/ \E s \in Symbols, a \in Amounts : Call_MB_burnTokens(s, a)
    \/ Call_MB_pause
    \/ Call_MB_unpause
    \/ \E s \in Symbols : Call_MB_emergencyWithdraw(s)

\* Lifecycle of MasterBridge: the operations on initialized, validators and
\* transactions (they share only paused with the asset accounting).
MBAdminNext ==
    \/ Call_MB_initialize
    \/ \E h \in TxHashes : Call_MB_processTransaction(h)
    \/ \E v \in ValidatorIds : Call_MB_addValidator(v)
    \/ \E v \in ValidatorIds : Call_MB_removeValidator(v)
    \/ Call_MB_pause
    \/ Call_MB_unpause

\* ---- MasterBridge, concurrent callers

ConcCallers == {"u1", "u2"}
ConcAmounts == {1, MaxAmt}
\* The symbol the callers contend for.
ConcSymbol == "USDC"
BalanceOps == {"lockTokens", "unlockTokens", "mintTokens", "burnTokens"}

MB_balanceOp(op, assets, paused, symbol, amount) ==
    CASE op = "lockTokens" -> MB_lockTokens(assets, paused, symbol, amount)
      [] op = "unlockTokens" -> MB_unlockTokens(assets, paused, symbol, amount)
      [] op = "mintTokens" -> MB_mintTokens(assets, paused, symbol, amount)
      [] op = "burnTokens" -> MB_burnTokens(assets, paused, symbol, amount)

\* A balance operation with an await between its test and its update.
MB_suspendsBeforeUpdate_Awaits(op) == TRUE

\* Whether the body of the operation suspends between reading the asset and
\* writing the balance: lines 154-206 hold no await, so an async method runs
\* from its first statement to its last when it is called.
MB_suspendsBeforeUpdate(op) == FALSE

\* No call is awaited.
NoPending == [op |-> "none"]

ConcInit ==
    /\ mbcPending = [c \in ConcCallers |-> NoPending]
    /\ mbcLog = <<>>

ConcFrame == UNCHANGED <<amVars, secVars, avVars, valVars, cbVars, optVars, sigVars, walletVars, bbVars>>

\* A caller calls the method and, at its own await, waits for the promise.
\* The body has run by then, as far as its first suspension.
Issue_MB_balanceOp(c, op, symbol, amount) ==
    LET r == MB_balanceOp(op, mbAssets, mbPaused, symbol, amount)
        suspended == MB_suspendsBeforeUpdate(op) /\ r.err = "none"
    IN
    /\ mbcPending[c] = NoPending
    /\ symbol \in DOMAIN mbAssets
    /\ Len(mbcLog) + Cardinality({x \in ConcCallers : mbcPending[x] # NoPending}) < MaxConcCalls
    /\ mbAssets' = IF suspended THEN mbAssets ELSE r.assets
    /\ mbcPending' = [mbcPending EXCEPT ![c] =
                         [op |-> op, symbol |-> symbol, amount |-> amount, err |-> r.err,
                          suspended |-> suspended, write |-> r.assets[symbol]]]
    /\ UNCHANGED <<mbInitialized, mbValidators, mbTransactions, mbPaused, mbCall, mbLedger, mbcLog>>
    /\ ConcFrame

\* The promise settles and the caller resumes with the result.
Settle_MB_balanceOp(c) ==
    /\ mbcPending[c] # NoPending
    /\ mbAssets' = IF mbcPending[c].suspended
                    THEN [mbAssets EXCEPT ![mbcPending[c].symbol] = mbcPending[c].write]
                    ELSE mbAssets
    /\ mbcLog' = Append(mbcLog, [op |-> mbcPending[c].op, symbol |-> mbcPending[c].symbol,
                                  amount |-> mbcPending[c].amount, err |-> mbcPending[c].err])
    /\ mbcPending' = [mbcPending EXCEPT ![c] = NoPending]
    /\ UNCHANGED <<mbInitialized, mbValidators, mbTransactions, mbPaused, mbCall, mbLedger>>
    /\ ConcFrame

\* ---- AssetManager

ErrSymbolRegistered == "AssetError: Asset already registered"
ErrAddressRegistered == "AssetError: Token address already registered"
ErrAssetNotRegistered == "AssetError: Asset not registered"
ErrAddressNotRegistered == "AssetError: Token address not registered"

AM_registerAsset_NoAddressCheck(assets, tokenAddresses, symbol, tokenAddress) ==
    IF symbol \in DOMAIN assets
    THEN [err |-> ErrSymbolRegistered, assets |-> assets,
          tokenAddresses |-> tokenAddresses]
    ELSE [err |-> "none",
          assets |-> MapSet(assets, symbol, NewAssetInfo(symbol, tokenAddress)),
          tokenAddresses |-> MapSet(tokenAddresses, tokenAddress, symbol)]

AM_registerAsset(assets, tokenAddresses, symbol, tokenAddress) ==
    IF symbol \in DOMAIN assets
    THEN [err |-> ErrSymbolRegistered, assets |-> assets,
          tokenAddresses |-> tokenAddresses]
    ELSE IF tokenAddress \in DOMAIN tokenAddresses
    THEN [err |-> ErrAddressRegistered, assets |-> assets,
          tokenAddresses |-> tokenAddresses]
    ELSE [err |-> "none",
          assets |-> MapSet(assets, symbol, NewAssetInfo(symbol, tokenAddress)),
          tokenAddresses |-> MapSet(tokenAddresses, tokenAddress, symbol)]

\* removed: the token address of the asset the call removed ("" when it threw).
AM_unregisterAsset(assets, tokenAddresses, symbol) ==
    IF symbol \notin DOMAIN assets
    THEN [err |-> ErrAssetNotRegistered, assets |-> assets,
          tokenAddresses |-> tokenAddresses, removed |-> ""]
    ELSE [err |-> "none",
          assets |-> MapDelete(assets, symbol),
          tokenAddresses |-> MapDelete(tokenAddresses, assets[symbol].tokenAddress),
          removed |-> assets[symbol].tokenAddress]

AM_isAssetRegistered(assets, symbol) == symbol \in DOMAIN assets

AM_getAssetAddress(assets, symbol) ==
    IF symbol \notin DOMAIN assets
    THEN [err |-> ErrAssetNotRegistered, value |-> ""]
    ELSE [err |-> "none", value |-> assets[symbol].tokenAddress]

\* `if (!symbol)`: a missing entry and an entry holding '' both throw.
AM_getAssetSymbol(tokenAddresses, tokenAddress) ==
    IF tokenAddress \notin DOMAIN tokenAddresses \/ tokenAddresses[tokenAddress] = ""
    THEN [err |-> ErrAddressNotRegistered, value |-> ""]
    ELSE [err |-> "none", value |-> tokenAddresses[tokenAddress]]

AMFrame == amPrev' = amCall /\ UNCHANGED <<mbVars, secVars, avVars, valVars, cbVars, optVars, sigVars, walletVars, concVars, bbVars>>

Call_AM_registerAsset(symbol, tokenAddress) ==
    LET r == AM_registerAsset(amAssets, amTokenAddresses, symbol, tokenAddress) IN
    /\ amAssets' = r.assets
    /\ amTokenAddresses' = r.tokenAddresses
    /\ amCall' = [op |-> "registerAsset", symbol |-> symbol,
                  tokenAddress |-> tokenAddress, err |-> r.err]
    /\ AMFrame

Call_AM_unregisterAsset(symbol) ==
    LET r == AM_unregisterAsset(amAssets, amTokenAddresses, symbol) IN
    /\ amAssets' = r.assets
    /\ amTokenAddresses' = r.tokenAddresses
    /\ amCall' = [op |-> "unregisterAsset", symbol |-> symbol,
                  tokenAddress |-> r.removed, err |-> r.err]
    /\ AMFrame

Call_AM_getAssetAddress(symbol) ==
    LET r == AM_getAssetAddress(amAssets, symbol) IN
    /\ amCall' = [op |-> "getAssetAddress", symbol |-> symbol,
                  tokenAddress |-> r.value, err |-> r.err]
    /\ UNCHANGED <<amAssets, amTokenAddresses>>
    /\ AMFrame

Call_AM_getAssetSymbol(tokenAddress) ==
    LET r == AM_getAssetSymbol(amTokenAddresses, tokenAddress) IN
    /\ amCall' = [op |-> "getAssetSymbol", symbol |-> r.value,
                  tokenAddress |-> tokenAddress, err |-> r.err]
    /\ UNCHANGED <<amAssets, amTokenAddresses>>
    /\ AMFrame

AMNext ==
    \/ \E s \in Symbols, t \in TokenAddrs : Call_AM_registerAsset(s, t)
    \/ \E s \in Symbols : Call_AM_unregisterAsset(s)
    \/ \E s \in Symbols : Call_AM_getAssetAddress(s)
    \/ \E t \in TokenAddrs : Call_AM_getAssetSymbol(t)

\* registerAsset takes any string as the symbol, the empty one included.
AMSymbols == Symbols \cup {""}

AMAnyNext ==
    \/ \E s \in AMSymbols, t \in TokenAddrs : Call_AM_registerAsset(s, t)
    \/ \E s \in AMSymbols : Call_AM_unregisterAsset(s)
    \/ \E s \in AMSymbols : Call_AM_getAssetAddress(s)
    \/ \E t \in TokenAddrs : Call_AM_getAssetSymbol(t)

\* ---- SecurityManager

\* SecurityConfig, as supplied to the constructor (times in clock ticks).
multiSigThreshold == 2
maxTransactions == 2
timeWindow == 2
emergencyDelay == 2
maxGasPrice == 1

\* "0xA1" is the checksum spelling of the address "0xa1".
SecAddrs == {"0xa1", "0xA1"}
toLowerCase(address) == IF address = "0xA1" THEN "0xa1" ELSE address
\* The addresses given to the list operations: two accounts, one of them in
\* both spellings, and a string that is not an address.
ListAddrs == {"0xa1", "0xA1", "0xb2"}
NotAnAddress == "b2"
\* ethers.isAddress(address)
\* The keys that sign: "0xA1" is what ethers recovers for the account "0xa1".
SignerAddrs == {"0xA1", "0xb2", "0xc3"}
isAddress(address) == address \in SecAddrs \cup ListAddrs \cup SignerAddrs
GasPrices == {maxGasPrice, maxGasPrice + 1}
\* Date.now() at construction: later than any configured delay after the epoch.
StartTime == emergencyDelay + timeWindow

\* No disableEmergencyMode has succeeded yet.
Never == -1

ErrEmergencyMode == "SecurityError: System is in emergency mode"
ErrBlacklisted == "SecurityError: Address is blacklisted"
ErrNotWhitelisted == "SecurityError: Address is not whitelisted"
ErrRateLimit == "SecurityError: Rate limit exceeded"
ErrGasPrice == "SecurityError: Gas price too high"
ErrCooldown == "SecurityError: Emergency mode cooldown period not elapsed"
ErrNotActive == "SecurityError: Emergency mode not active"
ErrBlacklistDisabled == "SecurityError: Blacklist feature is disabled"
ErrWhitelistDisabled == "SecurityError: Whitelist feature is disabled"
ErrInvalidAddress == "SecurityError: Invalid address format"

MapGet(m, k, default) == IF k \in DOMAIN m THEN m[k] ELSE default

\* history.filter(timestamp => now - timestamp < timeWindow)
RecentHistory(history, now) ==
    SelectSeq(history, LAMBDA timestamp : now - timestamp < timeWindow)

Sec_checkRateLimit(transactionHistory, now, address) ==
    LET history == MapGet(transactionHistory, toLowerCase(address), <<>>)
        recentHistory == RecentHistory(history, now)
    IN [value |-> Len(recentHistory) < maxTransactions,
        transactionHistory |->
            MapSet(transactionHistory, toLowerCase(address), recentHistory)]

Sec_recordTransaction(transactionHistory, now, address) ==
    LET history == MapGet(transactionHistory, toLowerCase(address), <<>>)
    IN MapSet(transactionHistory, toLowerCase(address), Append(history, now))

Sec_enableEmergencyMode(emergencyMode, lastEmergencyTrigger, now) ==
    IF now - lastEmergencyTrigger < emergencyDelay
    THEN [err |-> ErrCooldown, emergencyMode |-> emergencyMode,
          lastEmergencyTrigger |-> lastEmergencyTrigger]
    ELSE [err |-> "none", emergencyMode |-> TRUE, lastEmergencyTrigger |-> now]

Sec_disableEmergencyMode(emergencyMode) ==
    IF ~emergencyMode
    THEN [err |-> ErrNotActive, emergencyMode |-> emergencyMode]
    ELSE [err |-> "none", emergencyMode |-> FALSE]

Sec_addToBlacklist(blacklistEnabled, blacklist, address) ==
    IF ~blacklistEnabled
    THEN [err |-> ErrBlacklistDisabled, blacklist |-> blacklist]
    ELSE IF ~isAddress(address)
    THEN [err |-> ErrInvalidAddress, blacklist |-> blacklist]
    ELSE [err |-> "none", blacklist |-> blacklist \cup {toLowerCase(address)}]

Sec_removeFromBlacklist(blacklist, address) == blacklist \ {toLowerCase(address)}

\* isBlacklisted comparing the address as it was spelled by the caller.
Sec_isBlacklisted_CaseSensitive(blacklist, address) == address \in blacklist

Sec_isBlacklisted(blacklist, address) == toLowerCase(address) \in blacklist

Sec_addToWhitelist(whitelistEnabled, whitelist, address) ==
    IF ~whitelistEnabled
    THEN [err |-> ErrWhitelistDisabled, whitelist |-> whitelist]
    ELSE IF ~isAddress(address)
    THEN [err |-> ErrInvalidAddress, whitelist |-> whitelist]
    ELSE [err |-> "none", whitelist |-> whitelist \cup {toLowerCase(address)}]

Sec_removeFromWhitelist(whitelist, address) == whitelist \ {toLowerCase(address)}

Sec_isWhitelisted(whitelistEnabled, whitelist, address) ==
    IF ~whitelistEnabled THEN TRUE ELSE toLowerCase(address) \in whitelist

\* validateTransaction with the address lists consulted before emergency mode.
Sec_validateTransaction_ListsFirst(emergencyMode, blacklistEnabled, whitelistEnabled, blacklist, whitelist, transactionHistory, now, from, to, gasPrice) ==
    IF blacklistEnabled /\ (Sec_isBlacklisted(blacklist, from)
                             \/ Sec_isBlacklisted(blacklist, to))
    THEN [err |-> ErrBlacklisted, transactionHistory |-> transactionHistory]
    ELSE IF whitelistEnabled
            /\ (~Sec_isWhitelisted(whitelistEnabled, whitelist, from)
                \/ ~Sec_isWhitelisted(whitelistEnabled, whitelist, to))
    THEN [err |-> ErrNotWhitelisted, transactionHistory |-> transactionHistory]
    ELSE IF emergencyMode
    THEN [err |-> ErrEmergencyMode, transactionHistory |-> transactionHistory]
    ELSE LET r == Sec_checkRateLimit(transactionHistory, now, from) IN
         IF ~r.value
         THEN [err |-> ErrRateLimit, transactionHistory |-> r.transactionHistory]
         ELSE IF gasPrice > maxGasPrice
         THEN [err |-> ErrGasPrice, transactionHistory |-> r.transactionHistory]
         ELSE [err |-> "none", transactionHistory |-> r.transactionHistory]

\* validateTransaction(from, to, amount, gasPrice): amount is not read.
Sec_validateTransaction(emergencyMode, blacklistEnabled, whitelistEnabled, blacklist, whitelist, transactionHistory, now, from, to, gasPrice) ==
    IF emergencyMode
    THEN [err |-> ErrEmergencyMode, transactionHistory |-> transactionHistory]
    ELSE IF blacklistEnabled /\ (Sec_isBlacklisted(blacklist, from)
                                  \/ Sec_isBlacklisted(blacklist, to))
    THEN [err |-> ErrBlacklisted, transactionHistory |-> transactionHistory]
    ELSE IF whitelistEnabled
            /\ (~Sec_isWhitelisted(whitelistEnabled, whitelist, from)
                \/ ~Sec_isWhitelisted(whitelistEnabled, whitelist, to))
    THEN [err |-> ErrNotWhitelisted, transactionHistory |-> transactionHistory]
    ELSE LET r == Sec_checkRateLimit(transactionHistory, now, from) IN
         IF ~r.value
         THEN [err |-> ErrRateLimit, transactionHistory |-> r.transactionHistory]
         ELSE IF gasPrice > maxGasPrice
         THEN [err |-> ErrGasPrice, transactionHistory |-> r.transactionHistory]
         ELSE [err |-> "none", transactionHistory |-> r.transactionHistory]

\* ---- SecurityManager, multi-signature

\* The expiry of a signature (3600000 ms), in clock ticks.
signatureExpiry == 1

ErrSignerNotFound == "SecurityError: Signer not found"
ErrSignatureExpired == "SecurityError: Signature expired"
ErrUnauthorizedSigner == "SecurityError: Unauthorized signer"

SigHashes == {"h1", "h2"}
\* ethers.keccak256(ethers.toUtf8Bytes(txHash)): one digest per hash.
keccak256(txHash) == <<"keccak256", txHash>>
\* What a signing key produces for a message.
signMessage(key, message) == [key |-> key, message |-> message]
\* ethers.verifyMessage(message, signature): the address of the key when the
\* signature was made over this message, and the address of no account that
\* anybody holds when it was made over another.
NobodysAddress == "0xdead"
verifyMessage(message, signature) ==
    IF signature.message = message THEN signature.key ELSE NobodysAddress

\* Timestamps a submitter writes: one already expired at construction, and
\* the time of construction.
SigTimestamps == {StartTime - signatureExpiry - 1, StartTime}
\* SignatureData: the signature over "h1" of every key, stamped at
\* construction; of the first key, also one that has expired and one over "h2".
SigData ==
    {[signer |-> k, timestamp |-> StartTime, signature |-> signMessage(k, keccak256("h1"))] : k \in SignerAddrs}
    \cup {[signer |-> "0xA1", timestamp |-> ts, signature |-> signMessage("0xA1", keccak256("h1"))] : ts \in SigTimestamps}
    \cup {[signer |-> "0xA1", timestamp |-> StartTime, signature |-> signMessage("0xA1", keccak256("h2"))]}
SigLists == UNION {[1..n -> SigData] : n \in 0..MaxSigs}

Sec_addSigner(signers, address) ==
    IF ~isAddress(address)
    THEN [err |-> ErrInvalidAddress, signers |-> signers]
    ELSE [err |-> "none", signers |-> signers \cup {toLowerCase(address)}]

Sec_removeSigner(signers, address) ==
    IF toLowerCase(address) \notin signers
    THEN [err |-> ErrSignerNotFound, signers |-> signers]
    ELSE [err |-> "none", signers |-> signers \ {toLowerCase(address)}]

\* The test of the loop body on one SignatureData: the error it throws.
Sec_checkSignature(signers, now, message, sigData) ==
    IF now - sigData.timestamp > signatureExpiry THEN ErrSignatureExpired
    ELSE IF toLowerCase(verifyMessage(message, sigData.signature)) \notin signers
    THEN ErrUnauthorizedSigner
    ELSE "none"

\* validateSignatures counting the signatures instead of the signers.
Sec_validateSignatures_CountsEntries(signers, now, txHash, signatures) ==
    LET message == keccak256(txHash)
        thrown == SelectSeq([i \in DOMAIN signatures |-> Sec_checkSignature(signers, now, message, signatures[i])], LAMBDA e : e # "none")
    IN IF Len(signatures) < multiSigThreshold THEN [err |-> "none", value |-> FALSE]
       ELSE IF thrown # <<>> THEN [err |-> thrown[1], value |-> FALSE]
       ELSE [err |-> "none", value |-> Len(signatures) >= multiSigThreshold]

\* validateSignatures(txHash, signatures): the loop throws at the first
\* SignatureData that fails a test; value is what a call that returns returns.
Sec_validateSignatures(signers, now, txHash, signatures) ==
    LET message == keccak256(txHash)
        thrown == SelectSeq([i \in DOMAIN signatures |-> Sec_checkSignature(signers, now, message, signatures[i])], LAMBDA e : e # "none")
        uniqueSigners == {toLowerCase(verifyMessage(message, signatures[i].signature)) : i \in DOMAIN signatures}
    IN IF Len(signatures) < multiSigThreshold THEN [err |-> "none", value |-> FALSE]
       ELSE IF thrown # <<>> THEN [err |-> thrown[1], value |-> FALSE]
       ELSE [err |-> "none", value |-> Cardinality(uniqueSigners) >= multiSigThreshold]

SigInit ==
    /\ secSigners = {}
    /\ sigCall = [op |-> "constructor", err |-> "none"]

SigFrame == UNCHANGED <<mbVars, amVars, avVars, valVars, cbVars, optVars, secVars, walletVars, concVars, bbVars>>

Call_Sec_addSigner(address) ==
    LET r == Sec_addSigner(secSigners, address) IN
    /\ secSigners' = r.signers
    /\ sigCall' = [op |-> "addSigner", err |-> r.err, address |-> address]
    /\ SigFrame

Call_Sec_removeSigner(address) ==
    LET r == Sec_removeSigner(secSigners, address) IN
    /\ secSigners' = r.signers
    /\ sigCall' = [op |-> "removeSigner", err |-> r.err, address |-> address]
    /\ SigFrame

Call_Sec_validateSignatures(txHash, signatures) ==
    LET r == Sec_validateSignatures(secSigners, secNow, txHash, signatures) IN
    /\ sigCall' = [op |-> "validateSignatures", err |-> r.err, value |-> r.value,
                    txHash |-> txHash, signatures |-> signatures]
    /\ UNCHANGED secSigners
    /\ SigFrame

SecInit ==
    /\ secNow = StartTime
    /\ secBlacklistEnabled = FALSE
    /\ secWhitelistEnabled = FALSE
    /\ secTransactionHistory = EmptyMap
    /\ secEmergencyMode = FALSE
    /\ secBlacklist = {}
    /\ secWhitelist = {}
    /\ secLastEmergencyTrigger = 0
    /\ secCall = [op |-> "constructor", err |-> "none"]
    /\ secAdmitted = [a \in {toLowerCase(x) : x \in SecAddrs \cup ListAddrs} |-> <<>>]
    /\ secLastDisable = Never

SecFrame == UNCHANGED <<mbVars, amVars, avVars, valVars, cbVars, optVars, sigVars, walletVars, concVars, bbVars>>

\* The admissions of a sender that are still inside the window at `now`.
AdmittedInWindow(admitted, now) ==
    SelectSeq(admitted, LAMBDA timestamp : now - timestamp < timeWindow)

\* The clock advances (the admissions that leave the window are forgotten).
Tick ==
    /\ secNow < StartTime + MaxTicks
    /\ secNow' = secNow + 1
    /\ secAdmitted' = [a \in DOMAIN secAdmitted |->
                          AdmittedInWindow(secAdmitted[a], secNow + 1)]
    /\ UNCHANGED <<secBlacklistEnabled, secWhitelistEnabled, secTransactionHistory,
                   secEmergencyMode, secBlacklist, secWhitelist,
                   secLastEmergencyTrigger, secCall, secLastDisable>>
    /\ SecFrame

Call_Sec_checkRateLimit(address) ==
    LET r == Sec_checkRateLimit(secTransactionHistory, secNow, address) IN
    /\ secTransactionHistory' = r.transactionHistory
    /\ secCall' = [op |-> "checkRateLimit", err |-> "none"]
    /\ UNCHANGED <<secNow, secBlacklistEnabled, secWhitelistEnabled,
                   secEmergencyMode, secBlacklist, secWhitelist,
                   secLastEmergencyTrigger, secAdmitted,
                   secLastDisable>>
    /\ SecFrame

Call_Sec_recordTransaction(address) ==
    /\ Len(MapGet(secTransactionHistory, toLowerCase(address), <<>>)) < maxTransactions
    /\ secTransactionHistory' =
           Sec_recordTransaction(secTransactionHistory, secNow, address)
    /\ secCall' = [op |-> "recordTransaction", err |-> "none"]
    /\ UNCHANGED <<secNow, secBlacklistEnabled, secWhitelistEnabled,
                   secEmergencyMode, secBlacklist, secWhitelist,
                   secLastEmergencyTrigger, secAdmitted,
                   secLastDisable>>
    /\ SecFrame

Call_Sec_enableEmergencyMode ==
    LET r == Sec_enableEmergencyMode(secEmergencyMode, secLastEmergencyTrigger,
                                     secNow) IN
    /\ secEmergencyMode' = r.emergencyMode
    /\ secLastEmergencyTrigger' = r.lastEmergencyTrigger
    /\ secCall' = [op |-> "enableEmergencyMode", err |-> r.err]
    /\ UNCHANGED <<secNow, secBlacklistEnabled, secWhitelistEnabled,
                   secTransactionHistory, secBlacklist, secWhitelist, secAdmitted,
                   secLastDisable>>
    /\ SecFrame

Call_Sec_disableEmergencyMode ==
    LET r == Sec_disableEmergencyMode(secEmergencyMode) IN
    /\ secEmergencyMode' = r.emergencyMode
    /\ secCall' = [op |-> "disableEmergencyMode", err |-> r.err]
    /\ secLastDisable' = IF r.err = "none" THEN secNow ELSE secLastDisable
    /\ UNCHANGED <<secNow, secBlacklistEnabled, secWhitelistEnabled,
                   secTransactionHistory, secBlacklist, secWhitelist,
                   secLastEmergencyTrigger, secAdmitted>>
    /\ SecFrame

\* updateConfig(newConfig) with a Partial<SecurityConfig> that sets the two
\* list-enforcement flags (the other settings keep their values).
Call_Sec_updateConfig(blacklistEnabled, whitelistEnabled) ==
    /\ secBlacklistEnabled' = blacklistEnabled
    /\ secWhitelistEnabled' = whitelistEnabled
    /\ secCall' = [op |-> "updateConfig", err |-> "none"]
    /\ UNCHANGED <<secNow, secTransactionHistory, secEmergencyMode, secBlacklist,
                   secWhitelist, secLastEmergencyTrigger, secAdmitted,
                   secLastDisable>>
    /\ SecFrame

Call_Sec_validateTransaction(from, to, gasPrice) ==
    LET r == Sec_validateTransaction(secEmergencyMode, secBlacklistEnabled,
                 secWhitelistEnabled, secBlacklist, secWhitelist,
                 secTransactionHistory, secNow, from, to, gasPrice)
        sender == toLowerCase(from)
        inWindow == AdmittedInWindow(secAdmitted[sender], secNow)
    IN
    /\ Len(inWindow) <= maxTransactions
    /\ secTransactionHistory' = r.transactionHistory
    /\ secCall' = [op |-> "validateTransaction", err |-> r.err,
                    from |-> sender, to |-> toLowerCase(to)]
    /\ secAdmitted' = IF r.err = "none"
                      THEN [secAdmitted EXCEPT ![sender] = Append(inWindow, secNow)]
                      ELSE secAdmitted
    /\ UNCHANGED <<secNow, secBlacklistEnabled, secWhitelistEnabled,
                   secEmergencyMode, secBlacklist, secWhitelist,
                   secLastEmergencyTrigger, secLastDisable>>
    /\ SecFrame

Call_Sec_addToBlacklist(address) ==
    LET r == Sec_addToBlacklist(secBlacklistEnabled, secBlacklist, address) IN
    /\ secBlacklist' = r.blacklist
    /\ secCall' = [op |-> "addToBlacklist", err |-> r.err]
    /\ UNCHANGED <<secNow, secBlacklistEnabled, secWhitelistEnabled,
                   secTransactionHistory, secEmergencyMode, secWhitelist,
                   secLastEmergencyTrigger, secAdmitted, secLastDisable>>
    /\ SecFrame

Call_Sec_removeFromBlacklist(address) ==
    /\ secBlacklist' = Sec_removeFromBlacklist(secBlacklist, address)
    /\ secCall' = [op |-> "removeFromBlacklist", err |-> "none"]
    /\ UNCHANGED <<secNow, secBlacklistEnabled, secWhitelistEnabled,
                   secTransactionHistory, secEmergencyMode, secWhitelist,
                   secLastEmergencyTrigger, secAdmitted, secLastDisable>>
    /\ SecFrame

Call_Sec_addToWhitelist(address) ==
    LET r == Sec_addToWhitelist(secWhitelistEnabled, secWhitelist, address) IN
    /\ secWhitelist' = r.whitelist
    /\ secCall' = [op |-> "addToWhitelist", err |-> r.err]
    /\ UNCHANGED <<secNow, secBlacklistEnabled, secWhitelistEnabled,
                   secTransactionHistory, secEmergencyMode, secBlacklist,
                   secLastEmergencyTrigger, secAdmitted, secLastDisable>>
    /\ SecFrame

Call_Sec_removeFromWhitelist(address) ==
    /\ secWhitelist' = Sec_removeFromWhitelist(secWhitelist, address)
    /\ secCall' = [op |-> "removeFromWhitelist", err |-> "none"]
    /\ UNCHANGED <<secNow, secBlacklistEnabled, secWhitelistEnabled,
                   secTransactionHistory, secEmergencyMode, secBlacklist,
                   secLastEmergencyTrigger, secAdmitted, secLastDisable>>
    /\ SecFrame

\* The address lists, the two flags that switch them on, and the check.
SecListsNext ==
    \/ \E b \in BOOLEAN, w \in BOOLEAN : Call_Sec_updateConfig(b, w)
    \/ \E a \in ListAddrs \cup {NotAnAddress} : Call_Sec_addToBlacklist(a)
    \/ \E a \in ListAddrs : Call_Sec_removeFromBlacklist(a)
    \/ \E a \in ListAddrs \cup {NotAnAddress} : Call_Sec_addToWhitelist(a)
    \/ \E a \in ListAddrs : Call_Sec_removeFromWhitelist(a)
    \/ \E from \in ListAddrs, to \in ListAddrs :
           Call_Sec_validateTransaction(from, to, maxGasPrice)

SecNext ==
    \/ Tick
    \/ \E a \in SecAddrs : Call_Sec_checkRateLimit(a)
    \/ \E a \in SecAddrs : Call_Sec_recordTransaction(a)
    \/ Call_Sec_enableEmergencyMode
    \/ Call_Sec_disableEmergencyMode
    \/ \E from \in SecAddrs, to \in SecAddrs, g \in GasPrices :
          Call_Sec_validateTransaction(from, to, g)
    \/ \E b \in BOOLEAN, w \in BOOLEAN : Call_Sec_updateConfig(b, w)

\* ---- AvalancheBridge

AvSymbols == {"USDC"}
AvAmounts == {1}
\* The callers that can have a call in flight at the same time.
Callers == {"c1", "c2"}
AvTokenOps == {"lockTokens", "unlockTokens", "mintTokens", "burnTokens"}

\* The contract function each operation populates: lockTokens and unlockTokens
\* both populate transfer(bridgeId, amount).
Selector(op) ==
    CASE op = "lockTokens" -> "transfer(address,uint256)"
      [] op = "unlockTokens" -> "transfer(address,uint256)"
      [] op = "mintTokens" -> "mint(address,uint256)"
      [] op = "burnTokens" -> "burn(uint256)"

\* txHash = keccak256(tx.data): tx.data is the selector followed by the encoded
\* arguments (the constant bridgeId, the amount); keccak256 is taken as
\* collision-free, so a hash is the data it was computed from.
TxHash(op, amount) == <<Selector(op), amount>>
AvHashes == {TxHash(op, a) : op \in AvTokenOps, a \in AvAmounts}

ErrAvFailedRegister == "BridgeError: Failed to register asset"
ErrAvFailedTokenOp == "BridgeError: Failed to lock/unlock/mint/burn tokens"
ErrAvFailedProcess == "BridgeError: Failed to process transaction"

\* The AvalancheAsset a registration stores (decimals and name are what the
\* token contract answers; no operation reads them).
NewAvalancheAsset(symbol, tokenAddress) ==
    [address |-> tokenAddress, symbol |-> symbol, isNative |-> FALSE]

\* The Transaction a token operation stores. sender, recipient, sourceChain,
\* targetChain and timestamp, which no operation reads, are left out.
NewTransaction(symbol, amount) ==
    [symbol |-> symbol, amount |-> amount, status |-> "PENDING",
     validatorSignatures |-> <<>>]

\* A call suspended at its await. orphan: the Transaction object a
\* processTransaction holds is no longer the one in transactions (a later
\* transactions.set replaced it).
Continuation(op, symbol, tokenAddress, amount, txHash, orphan) ==
    [op |-> op, symbol |-> symbol, tokenAddress |-> tokenAddress,
     amount |-> amount, txHash |-> txHash, orphan |-> orphan]
NoHash == <<"", 0>>

AvReturn(op, err) ==
    [op |-> op, err |-> err, txHash |-> NoHash, from |-> "", value |-> {}]

AvInit ==
    /\ avAssets = EmptyMap
    /\ avTransactions = EmptyMap
    /\ avPaused = FALSE
    /\ avInflight = EmptyBag
    /\ avCall = AvReturn("constructor", "none")

AvFrame == UNCHANGED <<mbVars, amVars, secVars, valVars, cbVars, optVars, sigVars, walletVars, concVars, bbVars>>

Suspend(k) == avInflight (+) SetToBag({k})
Resumed(k) == avInflight (-) SetToBag({k})
CanSuspend == BagCardinality(avInflight) < Cardinality(Callers)

\* registerAsset up to its await (lines 45-62).
Begin_Av_registerAsset(symbol, tokenAddress) ==
    /\ CanSuspend
    /\ IF avPaused
       THEN avCall' = AvReturn("registerAsset", ErrPaused) /\ UNCHANGED avInflight
       ELSE IF symbol \in DOMAIN avAssets
       THEN /\ avCall' = AvReturn("registerAsset", ErrAlreadyRegistered)
            /\ UNCHANGED avInflight
       ELSE /\ avInflight' = Suspend(Continuation("registerAsset", symbol,
                                         tokenAddress, 0, NoHash, FALSE))
            /\ UNCHANGED avCall
    /\ UNCHANGED <<avAssets, avTransactions, avPaused>>
    /\ AvFrame

\* registerAsset from its await on (lines 59-74): the contract calls answer
\* or throw.
Resume_Av_registerAsset(k, answered) ==
    /\ BagIn(k, avInflight) /\ k.op = "registerAsset"
    /\ avInflight' = Resumed(k)
    /\ IF answered
       THEN /\ avAssets' = MapSet(avAssets, k.symbol,
                                  NewAvalancheAsset(k.symbol, k.tokenAddress))
            /\ avCall' = AvReturn("registerAsset", "none")
       ELSE /\ avCall' = AvReturn("registerAsset", ErrAvFailedRegister)
            /\ UNCHANGED avAssets
    /\ UNCHANGED <<avTransactions, avPaused>>
    /\ AvFrame

Call_Av_unregisterAsset(symbol) ==
    /\ IF avPaused
       THEN avCall' = AvReturn("unregisterAsset", ErrPaused) /\ UNCHANGED avAssets
       ELSE IF symbol \notin DOMAIN avAssets
       THEN /\ avCall' = AvReturn("unregisterAsset", ErrNotRegistered)
            /\ UNCHANGED avAssets
       ELSE /\ avAssets' = MapDelete(avAssets, symbol)
            /\ avCall' = AvReturn("unregisterAsset", "none")
    /\ UNCHANGED <<avTransactions, avPaused, avInflight>>
    /\ AvFrame

\* lockTokens/unlockTokens/mintTokens/burnTokens up to the await of
\* populateTransaction (lines 93-111, 133-151, 173-191, 213-228).
Begin_Av_tokenOp(op, symbol, amount) ==
    /\ CanSuspend
    /\ IF avPaused
       THEN avCall' = AvReturn(op, ErrPaused) /\ UNCHANGED avInflight
       ELSE IF symbol \notin DOMAIN avAssets
       THEN avCall' = AvReturn(op, ErrNotRegistered) /\ UNCHANGED avInflight
       ELSE /\ avInflight' = Suspend(Continuation(op, symbol,
                                         avAssets[symbol].address, amount,
                                         NoHash, FALSE))
            /\ UNCHANGED avCall
    /\ UNCHANGED <<avAssets, avTransactions, avPaused>>
    /\ AvFrame

\* transactions.set(txHash, ...): the object stored replaces the one any
\* suspended processTransaction(txHash) holds.
OrphanHolders(inflight, txHash) ==
    LET holders == {k \in DOMAIN inflight :
                        k.op = "processTransaction" /\ k.txHash = txHash}
        Orphaned(k) == [k EXCEPT !.orphan = TRUE]
        targets == (DOMAIN inflight \ holders) \cup {Orphaned(k) : k \in holders}
    IN [k \in targets |->
          LET sources == {j \in DOMAIN inflight :
                            IF j \in holders THEN Orphaned(j) = k ELSE j = k}
              Sum[S \in SUBSET sources] ==
                  IF S = {} THEN 0
                  ELSE LET j == CHOOSE x \in S : TRUE
                       IN inflight[j] + Sum[S \ {j}]
          IN Sum[sources]]

\* The token operation from its await on (lines 113-129, ...): populateTransaction
\* answers or throws.
Resume_Av_tokenOp(k, answered) ==
    /\ BagIn(k, avInflight) /\ k.op \in AvTokenOps
    /\ IF answered
       THEN /\ avTransactions' = MapSet(avTransactions, TxHash(k.op, k.amount),
                                        NewTransaction(k.symbol, k.amount))
            /\ avInflight' = OrphanHolders(Resumed(k), TxHash(k.op, k.amount))
            /\ avCall' = AvReturn(k.op, "none")
       ELSE /\ avCall' = AvReturn(k.op, ErrAvFailedTokenOp)
            /\ avInflight' = Resumed(k)
            /\ UNCHANGED avTransactions
    /\ UNCHANGED <<avAssets, avPaused>>
    /\ AvFrame

\* processTransaction up to the await of getTransactionReceipt (lines 280-292).
Begin_Av_processTransaction(txHash) ==
    /\ CanSuspend
    /\ IF avPaused
       THEN /\ avCall' = AvReturn("processTransaction", ErrPaused)
            /\ UNCHANGED avInflight
       ELSE IF txHash \notin DOMAIN avTransactions
       THEN /\ avCall' = AvReturn("processTransaction", ErrTxNotFound)
            /\ UNCHANGED avInflight
       ELSE IF avTransactions[txHash].status # "PENDING"
       THEN /\ avCall' = AvReturn("processTransaction", ErrTxNotPending)
            /\ UNCHANGED avInflight
       ELSE /\ avInflight' = Suspend(Continuation("processTransaction", "", "", 0,
                                                  txHash, FALSE))
            /\ UNCHANGED avCall
    /\ UNCHANGED <<avAssets, avTransactions, avPaused>>
    /\ AvFrame

\* What provider.getTransactionReceipt(txHash) can answer: no receipt, or the
\* receipt of a transaction that succeeded or reverted. A chain does not change
\* the receipt of a hash: once the ledger holds the status a receipt gave, a
\* later receipt for the hash agrees with it.
Receipts(transactions, txHash) ==
    IF txHash \in DOMAIN transactions /\ transactions[txHash].status = "LOCKED"
    THEN {"none", "success"}
    ELSE IF txHash \in DOMAIN transactions /\ transactions[txHash].status = "FAILED"
    THEN {"none", "reverted"}
    ELSE {"none", "success", "reverted"}

\* if (receipt.status === 1) LOCKED else FAILED (lines 297-301).
StatusOfReceipt(receipt) == IF receipt = "success" THEN "LOCKED" ELSE "FAILED"

\* processTransaction from its await on (lines 292-305). It writes the status
\* into the Transaction object it fetched before the await.
Resume_Av_processTransaction(k, receipt) ==
    /\ BagIn(k, avInflight) /\ k.op = "processTransaction"
    /\ receipt \in Receipts(avTransactions, k.txHash)
    /\ avInflight' = Resumed(k)
    /\ IF receipt = "none"
       THEN /\ avCall' = AvReturn("processTransaction", ErrAvFailedProcess)
            /\ UNCHANGED avTransactions
       ELSE /\ avTransactions' =
                 IF k.orphan THEN avTransactions
                 ELSE [avTransactions EXCEPT
                         ![k.txHash].status = StatusOfReceipt(receipt)]
            /\ avCall' = [op |-> "processTransaction", err |-> "none",
                          txHash |-> k.txHash,
                          from |-> IF k.orphan THEN "ORPHAN"
                                   ELSE avTransactions[k.txHash].status,
                          value |-> {}]
    /\ UNCHANGED <<avAssets, avPaused>>
    /\ AvFrame

ErrAvFailedStatus == "BridgeError: Failed to get transaction status"

\* getTransactionStatus(txHash) with what provider.getTransactionReceipt
\* answers ("throws": the provider call is rejected): the status returned is
\* read off the receipt, not off the Transaction in the ledger (lines 250-271).
Av_getTransactionStatus(transactions, txHash, receipt) ==
    IF txHash \notin DOMAIN transactions THEN [err |-> ErrTxNotFound, value |-> ""]
    ELSE IF receipt = "throws" THEN [err |-> ErrAvFailedStatus, value |-> ""]
    ELSE IF receipt = "none" THEN [err |-> "none", value |-> "PENDING"]
    ELSE IF receipt = "success" THEN [err |-> "none", value |-> "LOCKED"]
    ELSE [err |-> "none", value |-> "FAILED"]

\* Array.from(transactions.entries())
Entries(m) == {<<k, m[k]>> : k \in DOMAIN m}

\* getPendingTransactions that leaves out the failed transactions only.
Av_getPendingTransactions_NotFailed(transactions) ==
    {e[1] : e \in {e \in Entries(transactions) : e[2].status # "FAILED"}}

\* entries().filter(([_, tx]) => tx.status === PENDING).map(([hash]) => hash),
\* as the set of the hashes in the array returned.
Av_getPendingTransactions(transactions) ==
    {e[1] : e \in {e \in Entries(transactions) : e[2].status = "PENDING"}}

Call_Av_getPendingTransactions ==
    /\ avCall' = [AvReturn("getPendingTransactions", "none") EXCEPT
                     !.value = Av_getPendingTransactions(avTransactions)]
    /\ UNCHANGED <<avAssets, avTransactions, avPaused, avInflight>>
    /\ AvFrame

Call_Av_pause ==
    /\ avPaused' = TRUE
    /\ avCall' = AvReturn("pause", "none")
    /\ UNCHANGED <<avAssets, avTransactions, avInflight>>
    /\ AvFrame

Call_Av_unpause ==
    /\ avPaused' = FALSE
    /\ avCall' = AvReturn("unpause", "none")
    /\ UNCHANGED <<avAssets, avTransactions, avInflight>>
    /\ AvFrame

AvNext ==
    \/ \E s \in AvSymbols, t \in TokenAddrs : Begin_Av_registerAsset(s, t)
    \/ \E k \in DOMAIN avInflight, answered \in BOOLEAN :
          Resume_Av_registerAsset(k, answered)
    \/ \E s \in AvSymbols : Call_Av_unregisterAsset(s)
    \/ \E op \in AvTokenOps, s \in AvSymbols, a \in AvAmounts :
          Begin_Av_tokenOp(op, s, a)
    \/ \E k \in DOMAIN avInflight, answered \in BOOLEAN :
          Resume_Av_tokenOp(k, answered)
    \/ \E h \in AvHashes : Begin_Av_processTransaction(h)
    \/ \E k \in DOMAIN avInflight, receipt \in {"none", "success", "reverted"} :
          Resume_Av_processTransaction(k, receipt)
    \/ Call_Av_getPendingTransactions
    \/ Call_Av_pause
    \/ Call_Av_unpause

\* ---- Validator

\* The address the validator was constructed with, and the addresses slash is
\* called with ("0xV1" is the same account in another letter case).
validatorAddress == "0xv1"
ValAddrs == {"0xv1", "0xV1", "0xv2"}
ValHashes == {"h1", "h2", "h3"}
StakeRange == 0..MaxStake

ErrValNotActive == "ValidationError: Validator is not active"
ErrValNoSignature == "ValidationError: No signature found for transaction"
ErrValCannotSlash == "ValidationError: Cannot slash other validators"

V_validateTransaction(active, txHash) ==
    IF ~active THEN [err |-> ErrValNotActive, value |-> FALSE]
    ELSE [err |-> "none", value |-> TRUE]

\* signTransaction without the test of active.
V_signTransaction_AlwaysSigns(active, signatures, txHash) ==
    [err |-> "none", signatures |-> MapSet(signatures, txHash, "signature")]

V_signTransaction(active, signatures, txHash) ==
    IF ~active THEN [err |-> ErrValNotActive, signatures |-> signatures]
    ELSE [err |-> "none", signatures |-> MapSet(signatures, txHash, "signature")]

V_getSignature(signatures, txHash) ==
    IF txHash \notin DOMAIN signatures \/ signatures[txHash] = ""
    THEN [err |-> ErrValNoSignature, value |-> ""]
    ELSE [err |-> "none", value |-> signatures[txHash]]

\* slash that zeroes the stake without deactivating the validator.
V_slash_StaysActive(stakeAmount, slashedAmount, active, validator) ==
    IF validator # validatorAddress
    THEN [err |-> ErrValCannotSlash, stakeAmount |-> stakeAmount,
          slashedAmount |-> slashedAmount, active |-> active]
    ELSE [err |-> "none", stakeAmount |-> 0,
          slashedAmount |-> slashedAmount + stakeAmount, active |-> active]

V_slash(stakeAmount, slashedAmount, active, validator) ==
    IF validator # validatorAddress
    THEN [err |-> ErrValCannotSlash, stakeAmount |-> stakeAmount,
          slashedAmount |-> slashedAmount, active |-> active]
    ELSE [err |-> "none", stakeAmount |-> 0,
          slashedAmount |-> slashedAmount + stakeAmount, active |-> FALSE]

ValReturn(op, arg, err, value) ==
    [op |-> op, arg |-> arg, err |-> err, value |-> value]

ValInit ==
    /\ valStakeAmount = 0
    /\ valActive = TRUE
    /\ valSlashedAmount = 0
    /\ valSignatures = EmptyMap
    /\ valCall = ValReturn("constructor", validatorAddress, "none", "")
    /\ valSigned = {}
    /\ valSlashed = FALSE

ValFrame == UNCHANGED <<mbVars, amVars, secVars, avVars, cbVars, optVars, sigVars, walletVars, concVars, bbVars>>

Call_V_validateTransaction(txHash) ==
    LET r == V_validateTransaction(valActive, txHash) IN
    /\ valCall' = ValReturn("validateTransaction", txHash, r.err,
                            IF r.value THEN "true" ELSE "")
    /\ UNCHANGED <<valStakeAmount, valActive, valSlashedAmount, valSignatures,
                   valSigned, valSlashed>>
    /\ ValFrame

Call_V_signTransaction(txHash) ==
    LET r == V_signTransaction(valActive, valSignatures, txHash) IN
    /\ valSignatures' = r.signatures
    /\ valCall' = ValReturn("signTransaction", txHash, r.err, "")
    /\ valSigned' = IF r.err = "none" THEN valSigned \cup {txHash} ELSE valSigned
    /\ UNCHANGED <<valStakeAmount, valActive, valSlashedAmount, valSlashed>>
    /\ ValFrame

Call_V_getSignature(txHash) ==
    LET r == V_getSignature(valSignatures, txHash) IN
    /\ valCall' = ValReturn("getSignature", txHash, r.err, r.value)
    /\ UNCHANGED <<valStakeAmount, valActive, valSlashedAmount, valSignatures,
                   valSigned, valSlashed>>
    /\ ValFrame

Call_V_isActive ==
    /\ valCall' = ValReturn("isActive", "", "none", IF valActive THEN "true" ELSE "")
    /\ UNCHANGED <<valStakeAmount, valActive, valSlashedAmount, valSignatures,
                   valSigned, valSlashed>>
    /\ ValFrame

Call_V_slash(validator) ==
    LET r == V_slash(valStakeAmount, valSlashedAmount, valActive, validator) IN
    /\ valStakeAmount' = r.stakeAmount
    /\ valSlashedAmount' = r.slashedAmount
    /\ valActive' = r.active
    /\ valCall' = ValReturn("slash", validator, r.err, "")
    /\ valSlashed' = (valSlashed \/ r.err = "none")
    /\ UNCHANGED <<valSignatures, valSigned>>
    /\ ValFrame

ValNext ==
    \/ \E h \in ValHashes : Call_V_validateTransaction(h)
    \/ \E h \in ValHashes : Call_V_signTransaction(h)
    \/ \E h \in ValHashes : Call_V_getSignature(h)
    \/ Call_V_isActive
    \/ \E v \in ValAddrs : Call_V_slash(v)

\* ---- AvalancheCeloBridge

\* The limits initialize gives the default tokens.  Amounts of this bridge are
\* counted in units of 100000 base units (the WBTC minimum, '100000').
usdcMinAmount == 10
usdcMaxAmount == 10000
usdcDailyLimit == 100000
usdtMinAmount == 10
usdtMaxAmount == 10000
usdtDailyLimit == 100000
wbtcMinAmount == 1
wbtcMaxAmount == 1000
wbtcDailyLimit == 10000

UsdcToken == "0xB97EF9Ef"
UsdtToken == "0x9702230A"
WbtcToken == "0x2260FAC5"
DaiToken == "0x6B175474"

\* The symbols and amounts of the token operations: a default token and a
\* symbol initialize does not register; an amount below the WBTC minimum, the
\* WBTC maximum, and an amount above it.
CbSymbols == {"WBTC", "DAI"}
CbAllSymbols == {"USDC", "USDT", "WBTC", "DAI"}
CbTokens == {UsdcToken, UsdtToken, WbtcToken, DaiToken}
CbAmounts == {wbtcMinAmount - 1, wbtcMaxAmount, wbtcMaxAmount + 1}
CbTokenOps == {"lockTokens", "unlockTokens", "mintTokens", "burnTokens"}
CbReceipts == {"none", "success", "reverted"}

ErrCbInitFailed == "BridgeError: Failed to initialize bridge"
ErrCbNotInitialized == "BridgeError: Bridge not initialized"
ErrCbMustBePaused == "BridgeError: Bridge must be paused for emergency withdrawal"
ErrCbTokenNotSupported == "BridgeError: Token not supported"
ErrCbBelowMinimum == "BridgeError: Amount below minimum"
ErrCbAboveMaximum == "BridgeError: Amount above maximum"
ErrCbDailyLimit == "BridgeError: Daily limit exceeded"

CB_addSupportedToken(supportedTokens, avalancheToken, minAmount, maxAmount, dailyLimit) ==
    MapSet(supportedTokens, avalancheToken,
           [isSupported |-> TRUE, minAmount |-> minAmount,
            maxAmount |-> maxAmount, dailyLimit |-> dailyLimit])

\* initialize without the test of isBridgeInitialized.
CB_initialize_NoGuard(initialized, validatorActive, assets, tokenAddresses, supportedTokens) ==
    LET failed(a, t) == [err |-> ErrCbInitFailed, initialized |-> initialized,
                         assets |-> a, tokenAddresses |-> t,
                         supportedTokens |-> supportedTokens]
        r1 == AM_registerAsset(assets, tokenAddresses, "USDC", UsdcToken)
        r2 == AM_registerAsset(r1.assets, r1.tokenAddresses, "USDT", UsdtToken)
        r3 == AM_registerAsset(r2.assets, r2.tokenAddresses, "WBTC", WbtcToken)
    IN IF V_validateTransaction(validatorActive, "0x0").err # "none"
       THEN failed(assets, tokenAddresses)
       ELSE IF r1.err # "none" THEN failed(assets, tokenAddresses)
       ELSE IF r2.err # "none" THEN failed(r1.assets, r1.tokenAddresses)
       ELSE IF r3.err # "none" THEN failed(r2.assets, r2.tokenAddresses)
       ELSE [err |-> "none", initialized |-> TRUE,
             assets |-> r3.assets, tokenAddresses |-> r3.tokenAddresses,
             supportedTokens |->
                 CB_addSupportedToken(
                     CB_addSupportedToken(
                         CB_addSupportedToken(supportedTokens, UsdcToken,
                             usdcMinAmount, usdcMaxAmount, usdcDailyLimit),
                         UsdtToken, usdtMinAmount, usdtMaxAmount, usdtDailyLimit),
                     WbtcToken, wbtcMinAmount, wbtcMaxAmount, wbtcDailyLimit)]

\* Every throw inside the try block, that of a registerAsset included, is
\* rethrown as 'Failed to initialize bridge'; what was registered before it
\* stays registered.
CB_initialize(initialized, validatorActive, assets, tokenAddresses, supportedTokens) ==
    LET failed(a, t) == [err |-> ErrCbInitFailed, initialized |-> initialized,
                         assets |-> a, tokenAddresses |-> t,
                         supportedTokens |-> supportedTokens]
        r1 == AM_registerAsset(assets, tokenAddresses, "USDC", UsdcToken)
        r2 == AM_registerAsset(r1.assets, r1.tokenAddresses, "USDT", UsdtToken)
        r3 == AM_registerAsset(r2.assets, r2.tokenAddresses, "WBTC", WbtcToken)
    IN IF initialized THEN failed(assets, tokenAddresses)
       ELSE IF V_validateTransaction(validatorActive, "0x0").err # "none"
       THEN failed(assets, tokenAddresses)
       ELSE IF r1.err # "none" THEN failed(assets, tokenAddresses)
       ELSE IF r2.err # "none" THEN failed(r1.assets, r1.tokenAddresses)
       ELSE IF r3.err # "none" THEN failed(r2.assets, r2.tokenAddresses)
       ELSE [err |-> "none", initialized |-> TRUE,
             assets |-> r3.assets, tokenAddresses |-> r3.tokenAddresses,
             supportedTokens |->
                 CB_addSupportedToken(
                     CB_addSupportedToken(
                         CB_addSupportedToken(supportedTokens, UsdcToken,
                             usdcMinAmount, usdcMaxAmount, usdcDailyLimit),
                         UsdtToken, usdtMinAmount, usdtMaxAmount, usdtDailyLimit),
                     WbtcToken, wbtcMinAmount, wbtcMaxAmount, wbtcDailyLimit)]

\* The checks every method but initialize, pause, unpause and emergencyWithdraw
\* starts with.
CB_requireRunning(initialized, paused) ==
    IF ~initialized THEN ErrCbNotInitialized
    ELSE IF paused THEN ErrPaused
    ELSE "none"

CB_registerAsset(initialized, paused, assets, tokenAddresses, symbol, tokenAddress) ==
    LET r == AM_registerAsset(assets, tokenAddresses, symbol, tokenAddress) IN
    IF CB_requireRunning(initialized, paused) # "none"
    THEN [err |-> CB_requireRunning(initialized, paused), assets |-> assets,
          tokenAddresses |-> tokenAddresses]
    ELSE [err |-> r.err, assets |-> r.assets, tokenAddresses |-> r.tokenAddresses]

CB_unregisterAsset(initialized, paused, assets, tokenAddresses, symbol) ==
    LET r == AM_unregisterAsset(assets, tokenAddresses, symbol) IN
    IF CB_requireRunning(initialized, paused) # "none"
    THEN [err |-> CB_requireRunning(initialized, paused), assets |-> assets,
          tokenAddresses |-> tokenAddresses]
    ELSE [err |-> r.err, assets |-> r.assets, tokenAddresses |-> r.tokenAddresses]

\* private validateTransaction(token, amount): the error it throws.
CB_validateTransaction(supportedTokens, dailyTransfers, token, amount) ==
    IF token \notin DOMAIN supportedTokens \/ ~supportedTokens[token].isSupported
    THEN ErrCbTokenNotSupported
    ELSE IF amount < supportedTokens[token].minAmount THEN ErrCbBelowMinimum
    ELSE IF amount > supportedTokens[token].maxAmount THEN ErrCbAboveMaximum
    ELSE IF MapGet(dailyTransfers, token, 0) + amount > supportedTokens[token].dailyLimit
    THEN ErrCbDailyLimit
    ELSE "none"

\* lockTokens, unlockTokens, mintTokens, burnTokens: the error thrown.  The four
\* bodies are the same checks (lockTokens also reads the locked balance of the
\* asset it has just looked up); none of them writes a field.
CB_tokenOp(initialized, paused, assets, supportedTokens, dailyTransfers, symbol, amount) ==
    IF CB_requireRunning(initialized, paused) # "none"
    THEN CB_requireRunning(initialized, paused)
    ELSE IF AM_getAssetAddress(assets, symbol).err # "none"
    THEN AM_getAssetAddress(assets, symbol).err
    ELSE CB_validateTransaction(supportedTokens, dailyTransfers,
                                AM_getAssetAddress(assets, symbol).value, amount)

\* getTransactionStatus(txHash), given the receipt the provider returns.
CB_getTransactionStatus(processedTransfers, txHash, receipt) ==
    IF txHash \in processedTransfers THEN "UNLOCKED"
    ELSE IF receipt = "none" THEN "PENDING"
    ELSE IF receipt = "success" THEN "UNLOCKED"
    ELSE "FAILED"

CB_processTransaction(initialized, paused, processedTransfers, txHash, receipt) ==
    IF CB_requireRunning(initialized, paused) # "none"
    THEN [err |-> CB_requireRunning(initialized, paused),
          processedTransfers |-> processedTransfers]
    ELSE IF CB_getTransactionStatus(processedTransfers, txHash, receipt) = "UNLOCKED"
    THEN [err |-> "none", processedTransfers |-> processedTransfers \cup {txHash}]
    ELSE [err |-> "none", processedTransfers |-> processedTransfers]

\* addValidator and removeValidator: the checks, then validator.validateTransaction.
CB_validatorOp(initialized, paused, validatorActive, validator) ==
    IF CB_requireRunning(initialized, paused) # "none"
    THEN CB_requireRunning(initialized, paused)
    ELSE V_validateTransaction(validatorActive, validator).err

\* pause (flag TRUE) and unpause (flag FALSE).
CB_setPaused(initialized, paused, flag) ==
    IF ~initialized THEN [err |-> ErrCbNotInitialized, paused |-> paused]
    ELSE [err |-> "none", paused |-> flag]

CB_emergencyWithdraw(initialized, paused, assets, symbol) ==
    IF ~initialized THEN ErrCbNotInitialized
    ELSE IF ~paused THEN ErrCbMustBePaused
    ELSE AM_getAssetAddress(assets, symbol).err

AM_getTotalSupply(assets, symbol) ==
    IF symbol \notin DOMAIN assets
    THEN [err |-> ErrAssetNotRegistered, value |-> 0]
    ELSE [err |-> "none",
          value |-> assets[symbol].lockedAmount + assets[symbol].mintedAmount]

CbReturn(op, symbol, amount, err, value) ==
    [op |-> op, symbol |-> symbol, amount |-> amount, err |-> err, value |-> value]

CBInit ==
    /\ cbInitialized = FALSE
    /\ cbPaused = FALSE
    /\ cbSupportedTokens = EmptyMap
    /\ cbDailyTransfers = EmptyMap
    /\ cbProcessedTransfers = {}
    /\ cbCall = CbReturn("constructor", "", 0, "none", 0)
    /\ cbInitSuccesses = 0
    /\ cbAcceptedTotal = [t \in CbTokens |-> 0]
    /\ cbNetSupply = [s \in CbSymbols |-> 0]

CBFrame == UNCHANGED <<mbVars, secVars, avVars, valVars, optVars, amCall, amPrev, cbDailyTransfers, sigVars, walletVars, concVars, bbVars>>

Call_CB_initialize ==
    LET r == CB_initialize(cbInitialized, valActive, amAssets, amTokenAddresses,
                           cbSupportedTokens) IN
    /\ cbInitialized' = r.initialized
    /\ amAssets' = r.assets
    /\ amTokenAddresses' = r.tokenAddresses
    /\ cbSupportedTokens' = r.supportedTokens
    /\ cbCall' = CbReturn("initialize", "", 0, r.err, 0)
    /\ cbInitSuccesses' = IF r.err = "none" THEN cbInitSuccesses + 1
                          ELSE cbInitSuccesses
    /\ UNCHANGED <<cbPaused, cbProcessedTransfers, cbAcceptedTotal, cbNetSupply>>
    /\ CBFrame

Call_CB_registerAsset(symbol, tokenAddress) ==
    LET r == CB_registerAsset(cbInitialized, cbPaused, amAssets, amTokenAddresses,
                              symbol, tokenAddress) IN
    /\ amAssets' = r.assets
    /\ amTokenAddresses' = r.tokenAddresses
    /\ cbCall' = CbReturn("registerAsset", symbol, 0, r.err, 0)
    /\ UNCHANGED <<cbInitialized, cbPaused, cbSupportedTokens, cbProcessedTransfers,
                   cbInitSuccesses, cbAcceptedTotal, cbNetSupply>>
    /\ CBFrame

Call_CB_unregisterAsset(symbol) ==
    LET r == CB_unregisterAsset(cbInitialized, cbPaused, amAssets, amTokenAddresses,
                                symbol) IN
    /\ amAssets' = r.assets
    /\ amTokenAddresses' = r.tokenAddresses
    /\ cbCall' = CbReturn("unregisterAsset", symbol, 0, r.err, 0)
    /\ UNCHANGED <<cbInitialized, cbPaused, cbSupportedTokens, cbProcessedTransfers,
                   cbInitSuccesses, cbAcceptedTotal, cbNetSupply>>
    /\ CBFrame

\* The histories follow the amounts of the calls that returned; a token that
\* has gone over its daily limit is followed no further.
Call_CB_tokenOp(op, symbol, amount) ==
    LET err == CB_tokenOp(cbInitialized, cbPaused, amAssets, cbSupportedTokens,
                          cbDailyTransfers, symbol, amount)
        token == AM_getAssetAddress(amAssets, symbol).value
        delta == IF op \in {"lockTokens", "mintTokens"} THEN amount ELSE -amount
    IN
    /\ \A t \in DOMAIN cbSupportedTokens :
           cbAcceptedTotal[t] <= cbSupportedTokens[t].dailyLimit
    /\ cbCall' = CbReturn(op, symbol, amount, err, 0)
    /\ cbAcceptedTotal' = IF err = "none"
                          THEN [cbAcceptedTotal EXCEPT ![token] = @ + amount]
                          ELSE cbAcceptedTotal
    /\ cbNetSupply' = IF err = "none"
                      THEN [cbNetSupply EXCEPT ![symbol] = @ + delta]
                      ELSE cbNetSupply
    /\ UNCHANGED <<amAssets, amTokenAddresses, cbInitialized, cbPaused,
                   cbSupportedTokens, cbProcessedTransfers, cbInitSuccesses>>
    /\ CBFrame

Call_CB_processTransaction(txHash, receipt) ==
    LET r == CB_processTransaction(cbInitialized, cbPaused, cbProcessedTransfers,
                                   txHash, receipt) IN
    /\ cbProcessedTransfers' = r.processedTransfers
    /\ cbCall' = CbReturn("processTransaction", txHash, 0, r.err, 0)
    /\ UNCHANGED <<amAssets, amTokenAddresses, cbInitialized, cbPaused,
                   cbSupportedTokens, cbInitSuccesses, cbAcceptedTotal, cbNetSupply>>
    /\ CBFrame

Call_CB_validatorOp(op, validator) ==
    /\ cbCall' = CbReturn(op, validator, 0,
                     CB_validatorOp(cbInitialized, cbPaused, valActive, validator), 0)
    /\ UNCHANGED <<amAssets, amTokenAddresses, cbInitialized, cbPaused,
                   cbSupportedTokens, cbProcessedTransfers, cbInitSuccesses,
                   cbAcceptedTotal, cbNetSupply>>
    /\ CBFrame

Call_CB_setPaused(flag) ==
    LET r == CB_setPaused(cbInitialized, cbPaused, flag) IN
    /\ cbPaused' = r.paused
    /\ cbCall' = CbReturn(IF flag THEN "pause" ELSE "unpause", "", 0, r.err, 0)
    /\ UNCHANGED <<amAssets, amTokenAddresses, cbInitialized, cbSupportedTokens,
                   cbProcessedTransfers, cbInitSuccesses, cbAcceptedTotal,
                   cbNetSupply>>
    /\ CBFrame

Call_CB_emergencyWithdraw(symbol) ==
    /\ cbCall' = CbReturn("emergencyWithdraw", symbol, 0,
                     CB_emergencyWithdraw(cbInitialized, cbPaused, amAssets, symbol), 0)
    /\ UNCHANGED <<amAssets, amTokenAddresses, cbInitialized, cbPaused,
                   cbSupportedTokens, cbProcessedTransfers, cbInitSuccesses,
                   cbAcceptedTotal, cbNetSupply>>
    /\ CBFrame

\* assetManager.getTotalSupply(symbol), on the registry the bridge was given.
Call_CB_getTotalSupply(symbol) ==
    LET r == AM_getTotalSupply(amAssets, symbol) IN
    /\ cbCall' = CbReturn("getTotalSupply", symbol, 0, r.err, r.value)
    /\ UNCHANGED <<amAssets, amTokenAddresses, cbInitialized, cbPaused,
                   cbSupportedTokens, cbProcessedTransfers, cbInitSuccesses,
                   cbAcceptedTotal, cbNetSupply>>
    /\ CBFrame

\* Administration of the bridge, with its validator open to slashing.
CBAdminNext ==
    \/ Call_CB_initialize
    \/ \E s \in CbSymbols, t \in {WbtcToken, DaiToken} : Call_CB_registerAsset(s, t)
    \/ \E s \in CbAllSymbols : Call_CB_unregisterAsset(s)
    \/ \E h \in TxHashes, receipt \in CbReceipts : Call_CB_processTransaction(h, receipt)
    \/ \E op \in {"addValidator", "removeValidator"} :
           Call_CB_validatorOp(op, validatorAddress)
    \/ \E flag \in BOOLEAN : Call_CB_setPaused(flag)
    \/ \E s \in CbSymbols : Call_CB_emergencyWithdraw(s)
    \/ \E v \in ValAddrs : Call_V_slash(v)

\* The token operations of one day.
CBDayNext ==
    \/ Call_CB_initialize
    \/ \E op \in CbTokenOps, s \in CbSymbols, a \in CbAmounts : Call_CB_tokenOp(op, s, a)
    \/ \E flag \in BOOLEAN : Call_CB_setPaused(flag)
    \/ \E s \in CbSymbols : Call_CB_getTotalSupply(s)

\* ---- AvalancheBitcoinBridge

\* initialize (part_006, lines 37-60): one registerAsset, then the default
\* token and the flag; every throw is rethrown as 'Failed to initialize bridge'.
BB_initialize(initialized, validatorActive, assets, tokenAddresses, supportedTokens) ==
    LET failed == [err |-> ErrCbInitFailed, initialized |-> initialized,
                   assets |-> assets, tokenAddresses |-> tokenAddresses,
                   supportedTokens |-> supportedTokens]
        r1 == AM_registerAsset(assets, tokenAddresses, "WBTC", WbtcToken)
    IN IF initialized THEN failed
       ELSE IF V_validateTransaction(validatorActive, "0x0").err # "none" THEN failed
       ELSE IF r1.err # "none" THEN failed
       ELSE [err |-> "none", initialized |-> TRUE,
             assets |-> r1.assets, tokenAddresses |-> r1.tokenAddresses,
             supportedTokens |->
                 CB_addSupportedToken(supportedTokens, WbtcToken, wbtcMinAmount,
                                      wbtcMaxAmount, wbtcDailyLimit)]

BBInit ==
    /\ bbInitialized = FALSE
    /\ bbSupportedTokens = EmptyMap
    /\ bbCall = [op |-> "constructor", err |-> "none"]

BBFrame == UNCHANGED <<mbVars, secVars, avVars, valVars, optVars, amCall, amPrev, cbVars, sigVars, walletVars, concVars>>

Call_BB_initialize ==
    LET r == BB_initialize(bbInitialized, valActive, amAssets, amTokenAddresses,
                           bbSupportedTokens) IN
    /\ bbInitialized' = r.initialized
    /\ amAssets' = r.assets
    /\ amTokenAddresses' = r.tokenAddresses
    /\ bbSupportedTokens' = r.supportedTokens
    /\ bbCall' = [op |-> "initialize", err |-> r.err]
    /\ BBFrame

\* The two bridges constructed over one registry and one validator.
CBSharedNext ==
    \/ CBAdminNext
    \/ Call_BB_initialize

\* ---- CrossChainOptimizer

MAX_BATCH_SIZE == 50
\* The weights of calculateRouteScore, in tenths.
SECURITY_WEIGHT == 3
FEE_WEIGHT == 4
TIME_WEIGHT == 3

\* chainConfigs: chains 1 and 2 are not SKALE chains, chain 3 is; every chain
\* supports the tokens T1 and T2 and offers the same bridgeProtocols.  Chain 9
\* is not configured.
OptChains == {1, 2, 3}
isSkale(chain) == chain = 3
RouteTokens == {"T1", "T2"}
OptTokens == {"T1", "T2", "T3"}
SecurityLevels == {1, 2, 3}
SkaleBatchSizes == {0, 1, 2}
\* provider answers: the gas limit estimated (-1: the estimate was rejected)
\* and the congestion multiplier.
GasEstimates == {-1, 4}

\* Protocols a chain can be configured with (fees in units of 10^15 wei,
\* percentageFee in hundredths, estimatedTime in seconds).
ProtocolA == [securityLevel |-> 3, supportedTokens |-> {"T1", "T2"}, estimatedTime |-> 600, feeStructure |-> [baseFee |-> 4, percentageFee |-> 25, minFee |-> 0, maxFee |-> 10]]
ProtocolB == [securityLevel |-> 2, supportedTokens |-> {"T1", "T3"}, estimatedTime |-> 300, feeStructure |-> [baseFee |-> 0, percentageFee |-> 0, minFee |-> 0, maxFee |-> 0]]
ProtocolC == [securityLevel |-> 1, supportedTokens |-> {"T1", "T2"}, estimatedTime |-> 0, feeStructure |-> [baseFee |-> 200, percentageFee |-> 0, minFee |-> 0, maxFee |-> 125]]
ProtocolTemplates == {ProtocolA, ProtocolB, ProtocolC}
ProtocolLists == UNION {[1..n -> ProtocolTemplates] : n \in 0..MaxProtocols}

\* The protocols of a list, each named after its place in the list.
NamedProtocols(f) ==
    [i \in DOMAIN f |-> [name |-> i, securityLevel |-> f[i].securityLevel,
                         supportedTokens |-> f[i].supportedTokens,
                         estimatedTime |-> f[i].estimatedTime,
                         feeStructure |-> f[i].feeStructure]]
DefaultProtocols == NamedProtocols(<<ProtocolA, ProtocolB, ProtocolC>>)
\* Protocols of every security level, with a flat fee of nothing, of 1 ETH and
\* of 2 ETH and an estimatedTime of nothing, of 10 and of 30 minutes.
ScoreProtocols ==
    {[securityLevel |-> l, supportedTokens |-> RouteTokens, estimatedTime |-> t, feeStructure |-> [baseFee |-> f, percentageFee |-> 0, minFee |-> 0, maxFee |-> f]] : l \in SecurityLevels, t \in {0, 600, 1800}, f \in {0, 1000, 2000}}
NoProtocol == [name |-> 0]

ErrOptNoRoute == "Error: No bridge route found between chains"
ErrOptNoProtocol == "Error: No suitable bridge protocol found"
ErrOptTokenNotOnRoute == "Error: Token not supported on this bridge route"
ErrOptEstimateGas == "Error: Failed to estimate gas"
ErrOptBridgeFee == "Error: Failed to estimate bridge fee"
ErrOptFailed == "Error: Failed to optimize cross-chain transfer"
ErrOptBatchFailed == "Error: Failed to batch optimize cross-chain transfers"

\* initializeBridgeRoutes: a route for every ordered pair of different
\* configured chains.
Opt_hasRoute(fromChain, toChain) ==
    fromChain \in OptChains /\ toChain \in OptChains /\ fromChain # toChain

Opt_getAvailableProtocols(protocols, fromChain, toChain) ==
    IF fromChain \notin OptChains \/ toChain \notin OptChains THEN <<>>
    ELSE IF isSkale(fromChain) /\ isSkale(toChain)
    THEN <<[name |-> "SKALE Bridge", securityLevel |-> 3,
            supportedTokens |-> RouteTokens, estimatedTime |-> 0,
            feeStructure |-> [baseFee |-> 0, percentageFee |-> 0,
                              minFee |-> 0, maxFee |-> 0]]>>
    ELSE protocols

Opt_estimateProtocolFee(protocol) ==
    LET fs == protocol.feeStructure
        percentageAmount == (fs.baseFee * fs.percentageFee) \div 100
        fee == fs.baseFee + percentageAmount
        atLeastMin == IF fee < fs.minFee THEN fs.minFee ELSE fee
    IN IF atLeastMin > fs.maxFee THEN fs.maxFee ELSE atLeastMin

\* calculateRouteScore on calculateSecurityScore, 30000 times the real number:
\* normalizedFee is fee / 1000 in the fee unit, normalizedTime time / 600, the
\* security score securityLevel / 3.
Opt_calculateRouteScore(fee, time, securityLevel) ==
    FEE_WEIGHT * (3000 - 3 * fee) + TIME_WEIGHT * (3000 - 5 * time)
        + SECURITY_WEIGHT * (1000 * securityLevel)

Opt_protocolScore(protocol) ==
    Opt_calculateRouteScore(Opt_estimateProtocolFee(protocol),
                            protocol.estimatedTime, protocol.securityLevel)

\* The reducer that also replaces the best protocol by one of equal score.
Opt_better_OrEqual(current, best) ==
    Opt_protocolScore(current) >= Opt_protocolScore(best)

\* current.score > best.score
Opt_better(current, best) == Opt_protocolScore(current) > Opt_protocolScore(best)

\* protocolScores.reduce((best, current) => ...), from the element at place i.
RECURSIVE Opt_reduceBest(_, _, _)
Opt_reduceBest(candidates, best, i) ==
    IF i > Len(candidates) THEN best
    ELSE Opt_reduceBest(candidates,
             IF Opt_better(candidates[i], best) THEN candidates[i] ELSE best, i + 1)

Opt_availableProtocols(protocols, fromChain, toChain, tokenAddress, securityPreference) ==
    SelectSeq(Opt_getAvailableProtocols(protocols, fromChain, toChain),
              LAMBDA protocol : /\ protocol.securityLevel >= securityPreference
                                /\ tokenAddress \in protocol.supportedTokens)

Opt_selectOptimalProtocol(protocols, fromChain, toChain, tokenAddress, securityPreference) ==
    LET available == Opt_availableProtocols(protocols, fromChain, toChain,
                                            tokenAddress, securityPreference)
    IN IF ~Opt_hasRoute(fromChain, toChain)
       THEN [err |-> ErrOptNoRoute, protocol |-> NoProtocol]
       ELSE IF Len(available) = 0
       THEN [err |-> ErrOptNoProtocol, protocol |-> NoProtocol]
       ELSE [err |-> "none", protocol |-> Opt_reduceBest(available, available[1], 2)]

Opt_findOptimalRoute(fromChain, toChain, tokenAddress) ==
    IF ~Opt_hasRoute(fromChain, toChain) THEN ErrOptNoRoute
    ELSE IF tokenAddress \notin RouteTokens THEN ErrOptTokenNotOnRoute
    ELSE "none"

Opt_estimateGas(fromChain, gasEstimate) ==
    IF fromChain \notin OptChains THEN [err |-> ErrOptEstimateGas, value |-> 0]
    ELSE IF isSkale(fromChain) THEN [err |-> "none", value |-> 0]
    ELSE IF gasEstimate < 0 THEN [err |-> ErrOptEstimateGas, value |-> 0]
    ELSE [err |-> "none", value |-> gasEstimate]

Opt_estimateBridgeFee(fromChain, toChain, amount, congestion) ==
    LET multiplier == IF isSkale(fromChain) THEN 1 ELSE congestion IN
    IF fromChain \notin OptChains \/ toChain \notin OptChains
    THEN [err |-> ErrOptBridgeFee, value |-> 0]
    ELSE IF isSkale(fromChain) /\ isSkale(toChain) THEN [err |-> "none", value |-> 0]
    ELSE [err |-> "none",
          value |-> (amount \div 1000) * (IF multiplier > 1 THEN multiplier ELSE 1)]

Opt_calculatePriority(amount, gasCost, bridgeFee) ==
    amount \div (IF gasCost + bridgeFee = 0 THEN 1 ELSE gasCost + bridgeFee)

\* The fields of a CrossChainTransfer the checks read (from, to, route,
\* estimatedTime and securityScore are carried along unread).
Opt_optimizeCrossChainTransfer(protocols, pendingTransfers, fromChain, toChain, amount, tokenAddress, securityPreference, gasEstimate, congestion) ==
    LET gas == Opt_estimateGas(fromChain, gasEstimate)
        fee == Opt_estimateBridgeFee(fromChain, toChain, amount, congestion)
        route == Opt_findOptimalRoute(fromChain, toChain, tokenAddress)
        selected == Opt_selectOptimalProtocol(protocols, fromChain, toChain,
                                              tokenAddress, securityPreference)
    IN IF gas.err # "none" \/ fee.err # "none" \/ route # "none"
          \/ selected.err # "none"
       THEN [err |-> ErrOptFailed, pendingTransfers |-> pendingTransfers,
             protocol |-> NoProtocol]
       ELSE [err |-> "none",
             pendingTransfers |->
                 Append(pendingTransfers,
                        [fromChain |-> fromChain, toChain |-> toChain,
                         amount |-> amount, tokenAddress |-> tokenAddress,
                         estimatedGas |-> gas.value, bridgeFee |-> fee.value,
                         priority |-> Opt_calculatePriority(amount, gas.value,
                                                            fee.value),
                         protocol |-> selected.protocol.name]),
             protocol |-> selected.protocol]

\* [...transfers].sort((a, b) => b.priority - a.priority): a stable sort.
RECURSIVE SortByPriority(_)
SortByPriority(transfers) ==
    IF transfers = <<>> THEN <<>>
    ELSE LET sorted == SortByPriority(SubSeq(transfers, 1, Len(transfers) - 1))
             x == transfers[Len(transfers)]
             k == Cardinality({i \in 1..Len(sorted) : sorted[i].priority >= x.priority})
         IN SubSeq(sorted, 1, k) \o <<x>> \o SubSeq(sorted, k + 1, Len(sorted))

\* The Map filled by forEach, keys[i] being the key of transfers[i]: one group
\* per key, in the order the keys were first seen, each group in the order of
\* the list.
GroupBy(transfers, keys) ==
    LET places == [i \in 1..Len(transfers) |-> i]
        first == SelectSeq(places, LAMBDA i : \A j \in 1..(i - 1) : keys[j] # keys[i])
    IN [g \in 1..Len(first) |->
           [n \in DOMAIN SelectSeq(places, LAMBDA i : keys[i] = keys[first[g]]) |->
               transfers[SelectSeq(places, LAMBDA i : keys[i] = keys[first[g]])[n]]]]

RECURSIVE Flatten(_)
Flatten(lists) == IF lists = <<>> THEN <<>> ELSE Head(lists) \o Flatten(Tail(lists))

\* transfers.map to OptimizedTransfer, and batch.map to the AssetManager
\* format: the route is dropped, then the priority.  id is the place of the
\* transfer in the input (history).
ToOptimizedTransfer(transfer) ==
    [id |-> transfer.id, amount |-> transfer.amount,
     tokenAddress |-> transfer.tokenAddress, priority |-> transfer.priority]
ToBatchTransfer(transfer) ==
    [id |-> transfer.id, amount |-> transfer.amount,
     tokenAddress |-> transfer.tokenAddress]

\* createBatches that cuts one element too late.
Sk_createBatches_OneMore(transfers, maxBatchSize) ==
    [b \in 1..((Len(transfers) + maxBatchSize) \div (maxBatchSize + 1)) |->
        SubSeq(transfers, (b - 1) * (maxBatchSize + 1) + 1,
               IF b * (maxBatchSize + 1) < Len(transfers)
               THEN b * (maxBatchSize + 1) ELSE Len(transfers))]

Sk_createBatches(transfers, maxBatchSize) ==
    [b \in 1..((Len(transfers) + maxBatchSize - 1) \div maxBatchSize) |->
        SubSeq(transfers, (b - 1) * maxBatchSize + 1,
               IF b * maxBatchSize < Len(transfers)
               THEN b * maxBatchSize ELSE Len(transfers))]

\* SkaleOptimizer.batchOptimizeTransfers: the batches it gives to processBatch.
Sk_batchOptimizeTransfers(transfers, maxBatchSize) ==
    LET sorted == SortByPriority(transfers)
        byToken == GroupBy(sorted, [i \in DOMAIN sorted |-> sorted[i].tokenAddress])
        batches == Flatten([g \in DOMAIN byToken |->
                               Sk_createBatches(byToken[g], maxBatchSize)])
    IN [b \in DOMAIN batches |->
           [i \in DOMAIN batches[b] |-> ToBatchTransfer(batches[b][i])]]

\* processRouteBatch: the batches given to assetManager.batchTransfer.
Opt_processRouteBatch(fromChain, transfers, maxBatchSize) ==
    IF isSkale(fromChain)
    THEN Sk_batchOptimizeTransfers(
             [i \in DOMAIN transfers |-> ToOptimizedTransfer(transfers[i])],
             maxBatchSize)
    ELSE [i \in DOMAIN transfers |-> <<ToBatchTransfer(transfers[i])>>]

WithIds(transfers) ==
    [i \in DOMAIN transfers |->
        [id |-> i, fromChain |-> transfers[i].fromChain,
         toChain |-> transfers[i].toChain, amount |-> transfers[i].amount,
         tokenAddress |-> transfers[i].tokenAddress,
         priority |-> transfers[i].priority]]

\* batchOptimizeCrossChainTransfers(transfers); transferFails: the first
\* batchTransfer is rejected by the provider.
Opt_batchOptimizeCrossChainTransfers(transfers, maxBatchSize, transferFails) ==
    LET sorted == SortByPriority(WithIds(transfers))
        byRoute == GroupBy(sorted, [i \in DOMAIN sorted |->
                                       <<sorted[i].fromChain, sorted[i].toChain>>])
        batches == Flatten([g \in DOMAIN byRoute |->
                               Opt_processRouteBatch(byRoute[g][1].fromChain,
                                                     byRoute[g], maxBatchSize)])
    IN IF transferFails /\ batches # <<>>
       THEN [err |-> ErrOptBatchFailed, submitted |-> <<>>]
       ELSE [err |-> "none", submitted |-> batches]

\* constructor; SkaleOptimizer: maxBatchSize: config.maxBatchSize || MAX_BATCH_SIZE
OptInit(protocols, maxBatchSize) ==
    /\ optProtocols = protocols
    /\ optMaxBatchSize = IF maxBatchSize = 0 THEN MAX_BATCH_SIZE ELSE maxBatchSize
    /\ optPendingTransfers = <<>>
    /\ optSubmitted = <<>>
    /\ optCall = [op |-> "constructor", err |-> "none"]

OptFrame == UNCHANGED <<mbVars, amVars, secVars, avVars, valVars, cbVars, optProtocols, optMaxBatchSize, sigVars, walletVars, concVars, bbVars>>

Call_Opt_optimizeCrossChainTransfer(fromChain, toChain, amount, tokenAddress, securityPreference, gasEstimate, congestion) ==
    LET r == Opt_optimizeCrossChainTransfer(optProtocols, optPendingTransfers,
                 fromChain, toChain, amount, tokenAddress, securityPreference,
                 gasEstimate, congestion) IN
    /\ Len(optPendingTransfers) < MaxPending
    /\ optPendingTransfers' = r.pendingTransfers
    /\ optCall' = [op |-> "optimizeCrossChainTransfer", err |-> r.err,
                   toChain |-> toChain, tokenAddress |-> tokenAddress,
                   securityPreference |-> securityPreference,
                   protocol |-> r.protocol.name]
    /\ optSubmitted' = <<>>
    /\ OptFrame

Call_Opt_clearPendingTransfers ==
    /\ optPendingTransfers' = <<>>
    /\ optCall' = [op |-> "clearPendingTransfers", err |-> "none"]
    /\ optSubmitted' = <<>>
    /\ OptFrame

\* batchOptimizeCrossChainTransfers(await getPendingTransfers())
Call_Opt_batchOptimizeCrossChainTransfers(transferFails) ==
    LET r == Opt_batchOptimizeCrossChainTransfers(optPendingTransfers,
                                                  optMaxBatchSize, transferFails) IN
    /\ optSubmitted' = r.submitted
    /\ optCall' = [op |-> "batchOptimizeCrossChainTransfers", err |-> r.err]
    /\ UNCHANGED optPendingTransfers
    /\ OptFrame

\* Transfers from chain 1, with every token and security preference.
RouteNext ==
    \/ \E toChain \in {2, 9}, tokenAddress \in OptTokens,
          securityPreference \in SecurityLevels, gasEstimate \in GasEstimates :
           Call_Opt_optimizeCrossChainTransfer(1, toChain, 4000, tokenAddress,
               securityPreference, gasEstimate, 1)
    \/ Call_Opt_clearPendingTransfers

\* Transfers to chain 2 at the default security preference, and their batches.
BatchNext ==
    \/ \E fromChain \in {1, 3}, amount \in {500, 4000}, tokenAddress \in RouteTokens,
          congestion \in {1, 2} :
           Call_Opt_optimizeCrossChainTransfer(fromChain, 2, amount, tokenAddress,
               2, 4, congestion)
    \/ \E transferFails \in BOOLEAN :
           Call_Opt_batchOptimizeCrossChainTransfers(transferFails)
    \/ Call_Opt_clearPendingTransfers

\* ---- MultiChainWallet

ErrBridgesNotConfigured == "Error: Bridges not configured for both chains"
ErrNotAFunction == "TypeError: address.toLowerCase is not a function"
ErrEstimateGas == "Error: Failed to estimate gas"
ErrLockFailed == "BridgeError"
ErrBridgeExists == "Error: Bridge already exists"

WalletChains == {"avalanche", "celo"}
WalletCallers == {"u1"}
\* await this.signer.getAddress()
WalletSigner == "0xA1"

\* The errors with which validateTransaction rejects.
ValidationErrors ==
    {ErrEmergencyMode, ErrBlacklisted, ErrNotWhitelisted, ErrRateLimit, ErrGasPrice, ErrNotAFunction}

\* securityManager.validateTransaction(from, sourceBridge.getBridgeId(), amount,
\* gasPrice): getBridgeId() is async and its result is passed without await,
\* so `to` is a Promise, and the lookup of `to` in a list, when the code
\* reaches it, throws a TypeError.
W_validateTransaction(emergencyMode, blacklistEnabled, whitelistEnabled, blacklist, whitelist, transactionHistory, now, from, gasPrice) ==
    LET fromBlacklisted == blacklistEnabled /\ Sec_isBlacklisted(blacklist, from)
        readsToInBlacklist == blacklistEnabled /\ ~fromBlacklisted
        readsToInWhitelist == /\ ~blacklistEnabled
                              /\ whitelistEnabled
                              /\ Sec_isWhitelisted(whitelistEnabled, whitelist, from)
    IN IF ~emergencyMode /\ (readsToInBlacklist \/ readsToInWhitelist)
       THEN [err |-> ErrNotAFunction, transactionHistory |-> transactionHistory]
       ELSE Sec_validateTransaction(emergencyMode, blacklistEnabled, whitelistEnabled, blacklist, whitelist, transactionHistory, now, from, from, gasPrice)

\* bridgeTokens continuing whatever the validation answered.
W_continuation_IgnoresValidation(pc, err) ==
    IF err # "none" /\ pc # "validate" THEN "idle"
    ELSE CASE pc = "validate" -> "estimate"
           [] pc = "estimate" -> "lock"
           [] pc = "lock" -> "history"
           [] pc = "history" -> "analytics"
           [] pc = "analytics" -> "idle"

\* bridgeTokens, lines 147-188: where the call goes after the awaited step at
\* pc has thrown err ("none": it returned). A rejected await ends the call.
W_continuation(pc, err) ==
    IF err # "none" THEN "idle"
    ELSE CASE pc = "validate" -> "estimate"
           [] pc = "estimate" -> "lock"
           [] pc = "lock" -> "history"
           [] pc = "history" -> "analytics"
           [] pc = "analytics" -> "idle"

NoCall == [pc |-> "idle", err |-> "none", admitted |-> FALSE, locked |-> FALSE, recorded |-> FALSE, analysed |-> FALSE]

WalletInit ==
    /\ wBridges = {}
    /\ wCalls = [c \in WalletCallers |-> NoCall]
    /\ wHistory = {}
    /\ wAnalytics = {}

WalletFrame == UNCHANGED <<mbVars, amVars, avVars, valVars, cbVars, optVars, sigVars, concVars, bbVars>>
WalletSecFrame == UNCHANGED <<secNow, secBlacklistEnabled, secWhitelistEnabled, secTransactionHistory, secEmergencyMode, secBlacklist, secWhitelist, secLastEmergencyTrigger, secCall, secAdmitted, secLastDisable>>

Call_W_addBridge(chainId) ==
    /\ chainId \notin wBridges
    /\ wBridges' = wBridges \cup {chainId}
    /\ UNCHANGED <<wCalls, wHistory, wAnalytics>>
    /\ WalletSecFrame /\ WalletFrame

Call_W_removeBridge(chainId) ==
    /\ wBridges' = wBridges \ {chainId}
    /\ UNCHANGED <<wCalls, wHistory, wAnalytics>>
    /\ WalletSecFrame /\ WalletFrame

\* bridgeTokens up to its first await (lines 140-149).
Begin_W_bridgeTokens(c, sourceChainId, targetChainId) ==
    /\ wCalls[c].pc = "idle"
    /\ wCalls' = [wCalls EXCEPT ![c] =
                     IF sourceChainId \notin wBridges \/ targetChainId \notin wBridges
                     THEN [NoCall EXCEPT !.err = ErrBridgesNotConfigured]
                     ELSE [NoCall EXCEPT !.pc = "validate", !.err = "pending"]]
    /\ UNCHANGED <<wBridges, wHistory, wAnalytics>>
    /\ WalletSecFrame /\ WalletFrame

\* await securityManager.validateTransaction(...), with the gas price the fee
\* manager answered (lines 148-153).
Step_W_validate(c, gasPrice) ==
    LET r == W_validateTransaction(secEmergencyMode, secBlacklistEnabled, secWhitelistEnabled, secBlacklist, secWhitelist, secTransactionHistory, secNow, WalletSigner, gasPrice) IN
    /\ wCalls[c].pc = "validate"
    /\ secTransactionHistory' = r.transactionHistory
    /\ secCall' = [op |-> "validateTransaction", err |-> r.err, from |-> toLowerCase(WalletSigner), to |-> "Promise"]
    /\ wCalls' = [wCalls EXCEPT ![c].pc = W_continuation("validate", r.err),
                                  ![c].err = IF r.err = "none" THEN "pending" ELSE r.err,
                                  ![c].admitted = (r.err = "none")]
    /\ UNCHANGED <<wBridges, wHistory, wAnalytics>>
    /\ UNCHANGED <<secNow, secBlacklistEnabled, secWhitelistEnabled, secEmergencyMode, secBlacklist, secWhitelist, secLastEmergencyTrigger, secAdmitted, secLastDisable>>
    /\ WalletFrame

\* await feeManager.estimateGas(...) (lines 156-161): it returns or throws.
Step_W_estimate(c, err) ==
    /\ wCalls[c].pc = "estimate"
    /\ wCalls' = [wCalls EXCEPT ![c].pc = W_continuation("estimate", err),
                                  ![c].err = IF err = "none" THEN "pending" ELSE err]
    /\ UNCHANGED <<wBridges, wHistory, wAnalytics>>
    /\ WalletSecFrame /\ WalletFrame

\* await sourceBridge.lockTokens(tokenAddress, BigInt(amount)) (line 164): the
\* bridge is called, and answers a hash or throws.
Step_W_lock(c, err) ==
    /\ wCalls[c].pc = "lock"
    /\ wCalls' = [wCalls EXCEPT ![c].pc = W_continuation("lock", err),
                                  ![c].err = IF err = "none" THEN "pending" ELSE err,
                                  ![c].locked = TRUE]
    /\ UNCHANGED <<wBridges, wHistory, wAnalytics>>
    /\ WalletSecFrame /\ WalletFrame

\* await historyManager.recordTransaction(sourceChainId, {...}) (lines 167-178).
Step_W_history(c) ==
    /\ wCalls[c].pc = "history"
    /\ wHistory' = wHistory \cup {c}
    /\ wCalls' = [wCalls EXCEPT ![c].pc = W_continuation("history", "none"),
                                  ![c].recorded = TRUE]
    /\ UNCHANGED <<wBridges, wAnalytics>>
    /\ WalletSecFrame /\ WalletFrame

\* await analyticsManager.recordTransaction(...) and return txHash (181-188).
Step_W_analytics(c) ==
    /\ wCalls[c].pc = "analytics"
    /\ wAnalytics' = wAnalytics \cup {c}
    /\ wCalls' = [wCalls EXCEPT ![c].pc = W_continuation("analytics", "none"),
                                  ![c].err = "none", ![c].analysed = TRUE]
    /\ UNCHANGED <<wBridges, wHistory>>
    /\ WalletSecFrame /\ WalletFrame

\* The wallet's own entry points to its security manager.
Call_W_enableEmergencyMode == Call_Sec_enableEmergencyMode /\ UNCHANGED walletVars
Call_W_disableEmergencyMode == Call_Sec_disableEmergencyMode /\ UNCHANGED walletVars
Call_W_updateConfig(blacklistEnabled, whitelistEnabled) ==
    Call_Sec_updateConfig(blacklistEnabled, whitelistEnabled) /\ UNCHANGED walletVars

WalletNext ==
    \/ Tick
    \/ Call_W_enableEmergencyMode
    \/ Call_W_disableEmergencyMode
    \/ \E b \in BOOLEAN, w \in BOOLEAN : Call_W_updateConfig(b, w)
    \/ \E chainId \in WalletChains : Call_W_addBridge(chainId)
    \/ \E chainId \in WalletChains : Call_W_removeBridge(chainId)
    \/ \E c \in WalletCallers, s \in WalletChains, t \in WalletChains : Begin_W_bridgeTokens(c, s, t)
    \/ \E c \in WalletCallers, g \in GasPrices : Step_W_validate(c, g)
    \/ \E c \in WalletCallers, e \in {"none", ErrEstimateGas} : Step_W_estimate(c, e)
    \/ \E c \in WalletCallers, e \in {"none", ErrLockFailed} : Step_W_lock(c, e)
    \/ \E c \in WalletCallers : Step_W_history(c)
    \/ \E c \in WalletCallers : Step_W_analytics(c)

\* ---- Specifications

BridgesInit == MBInit /\ ConcInit /\ BBInit /\ AMInit /\ SecInit /\ SigInit /\ AvInit /\ ValInit /\ CBInit /\ WalletInit

\* The bridges, with an optimizer whose chains offer no protocol.
Init == BridgesInit /\ OptInit(<<>>, 0)

\* The optimizer constructed with any list of protocols.
RouteInit == BridgesInit /\ \E f \in ProtocolLists : OptInit(NamedProtocols(f), 0)

\* The optimizer constructed with one protocol of any fee, time and level.
ScoreInit == BridgesInit /\ \E p \in ScoreProtocols : OptInit(NamedProtocols(<<p>>), 0)

\* The optimizer with the default protocols and any SKALE batch size.
BatchInit == BridgesInit /\ \E size \in SkaleBatchSizes : OptInit(DefaultProtocols, size)

\* MasterBridge, asset accounting.
SpecMB == Init /\ [][MBNext]_vars

\* MasterBridge with two callers that do not wait for one another.
MBConcNext ==
    \/ Call_MB_registerAsset(ConcSymbol, "0xT1")
    \/ \E c \in ConcCallers, op \in BalanceOps, a \in ConcAmounts :
          Issue_MB_balanceOp(c, op, ConcSymbol, a)
    \/ \E c \in ConcCallers : Settle_MB_balanceOp(c)

SpecMBConc == Init /\ [][MBConcNext]_vars

\* MasterBridge, lifecycle.
SpecMBAdmin == Init /\ [][MBAdminNext]_vars

\* The AssetManager registry.
SpecAM == Init /\ [][AMNext]_vars
SpecAMAny == Init /\ [][AMAnyNext]_vars

\* SecurityManager.
SpecSecLists == Init /\ [][SecListsNext]_vars
SpecSec == Init /\ [][SecNext]_vars

\* The signer set, the clock and the verification of submitted signatures.
SigNext ==
    \/ Tick
    \/ \E a \in SignerAddrs \cup {"0xa1", NotAnAddress} : Call_Sec_addSigner(a)
    \/ \E a \in SignerAddrs \cup {"0xa1"} : Call_Sec_removeSigner(a)
    \/ \E signatures \in SigLists : Call_Sec_validateSignatures("h1", signatures)

SpecSigs == Init /\ [][SigNext]_vars

\* MultiChainWallet over its SecurityManager: bridgeTokens, step by step, while
\* the wallet's other entry points are called.
SpecWallet == Init /\ [][WalletNext]_vars

\* Validator.
SpecVal == Init /\ [][ValNext]_vars

\* AvalancheCeloBridge over the registry and the validator.
SpecCBAdmin == Init /\ [][CBAdminNext]_vars
SpecCBDay == Init /\ [][CBDayNext]_vars
SpecCBShared == Init /\ [][CBSharedNext]_vars

\* CrossChainOptimizer: route selection, and batching over the SkaleOptimizer.
SpecRoute == RouteInit /\ [][RouteNext]_vars
SpecBatch == BatchInit /\ [][BatchNext]_vars
SpecScore == ScoreInit /\ [][RouteNext]_vars

\* AvalancheBridge, with two callers whose calls interleave at the awaits.
SpecAv == Init /\ [][AvNext]_vars

\* AvalancheBridge with a diligent operator: every suspended call is resumed,
\* and processTransaction keeps being called. What the chain answers is not in
\* the bridge's hands.
AvLiveNext ==
    \/ \E s \in AvSymbols, t \in TokenAddrs : Begin_Av_registerAsset(s, t)
    \/ \E k \in DOMAIN avInflight, answered \in BOOLEAN :
          Resume_Av_registerAsset(k, answered)
    \/ \E op \in AvTokenOps, s \in AvSymbols, a \in AvAmounts :
          Begin_Av_tokenOp(op, s, a)
    \/ \E k \in DOMAIN avInflight, answered \in BOOLEAN :
          Resume_Av_tokenOp(k, answered)
    \/ \E h \in AvHashes : Begin_Av_processTransaction(h)
    \/ \E k \in DOMAIN avInflight, receipt \in {"none", "success", "reverted"} :
          Resume_Av_processTransaction(k, receipt)

AvFairness ==
    /\ WF_vars(\E k \in DOMAIN avInflight, answered \in BOOLEAN :
                  Resume_Av_registerAsset(k, answered))
    /\ WF_vars(\E k \in DOMAIN avInflight, answered \in BOOLEAN :
                  Resume_Av_tokenOp(k, answered))
    /\ WF_vars(\E k \in DOMAIN avInflight,
                  receipt \in {"none", "success", "reverted"} :
                  Resume_Av_processTransaction(k, receipt))
    /\ \A h \in AvHashes : SF_vars(Begin_Av_processTransaction(h))

SpecAvLive == Init /\ [][AvLiveNext]_vars /\ AvFairness

\* A MasterBridge next to a SecurityManager whose emergency mode is switched
\* on and off: the bridge is called directly, as its public methods allow.
EmergencyNext ==
    \/ Tick
    \/ Call_Sec_enableEmergencyMode
    \/ Call_Sec_disableEmergencyMode
    \/ \E s \in Symbols, t \in TokenAddrs : Call_MB_registerAsset(s, t)
    \/ \E s \in Symbols, a \in Amounts : Call_MB_lockTokens(s, a)

SpecEmergency == Init /\ [][EmergencyNext]_vars

\* ------------------------------------------------------ MasterBridge claims

MBTotal(assets, s) == assets[s].lockedAmount + assets[s].mintedAmount

\* C1: for every registered symbol that only lockTokens/unlockTokens/
\* mintTokens/burnTokens calls have touched since its registration,
\* lockedAmount + mintedAmount equals the amounts of the successful locks and
\* mints minus the amounts of the successful unlocks and burns; a failed call
\* contributes nothing.
C1_Conservation ==
    \A s \in DOMAIN mbAssets :
        mbLedger[s].tracked => MBTotal(mbAssets, s) = mbLedger[s].sum

\* C1 witness: a lock, a mint, an unlock and a burn have succeeded on a symbol.
C1_Witness ==
    \E s \in DOMAIN mbAssets :
        /\ mbLedger[s].tracked /\ mbLedger[s].sum = 2
        /\ mbAssets[s].lockedAmount = 1 /\ mbAssets[s].mintedAmount = 1
        /\ mbCall = [op |-> "burnTokens", err |-> "none"]

\* C2: in every reachable state of a bridge that is not paused, and for every
\* registered symbol and amount, unlockTokens (as Call_MB_unlockTokens applies it)
\* succeeds exactly when amount <= lockedAmount and then lowers lockedAmount by
\* exactly amount, leaving mintedAmount alone; otherwise it fails with the
\* insufficient-amount error and changes no balance. The same for burnTokens
\* against mintedAmount.
C2_UnlockBurnExact ==
    ~mbPaused =>
    \A s \in DOMAIN mbAssets, a \in Amounts :
        LET u == MB_unlockTokens(mbAssets, mbPaused, s, a)
            b == MB_burnTokens(mbAssets, mbPaused, s, a)
        IN
        /\ IF a <= mbAssets[s].lockedAmount
           THEN /\ u.err = "none"
                /\ u.assets = [mbAssets EXCEPT
                                 ![s].lockedAmount = mbAssets[s].lockedAmount - a]
           ELSE /\ u.err = ErrInsufficientLocked
                /\ u.assets = mbAssets
        /\ IF a <= mbAssets[s].mintedAmount
           THEN /\ b.err = "none"
                /\ b.assets = [mbAssets EXCEPT
                                 ![s].mintedAmount = mbAssets[s].mintedAmount - a]
           ELSE /\ b.err = ErrInsufficientMinted
                /\ b.assets = mbAssets

\* C2 witness: the scenario's end: after locks and an unlock leave a locked
\* balance of 1, an unlock of more fails.
C2_Witness ==
    /\ mbCall = [op |-> "unlockTokens", err |-> ErrInsufficientLocked]
    /\ \E s \in DOMAIN mbAssets :
          mbLedger[s].tracked /\ mbAssets[s].lockedAmount = 1 /\ mbLedger[s].sum = 1

\* C3: every registered asset has lockedAmount >= 0 and mintedAmount >= 0,
\* whatever amount (zero, positive or negative) the callers pass.
C3_NonNegativeBalances ==
    \A s \in DOMAIN mbAssets :
        mbAssets[s].lockedAmount >= 0 /\ mbAssets[s].mintedAmount >= 0

\* C9: no two registered assets of a bridge have the same token address.
C9_UniqueTokenAddress ==
    \A s1 \in DOMAIN mbAssets, s2 \in DOMAIN mbAssets :
        s1 # s2 => mbAssets[s1].tokenAddress # mbAssets[s2].tokenAddress


\* C12: emergencyWithdraw(symbol) called on a bridge that is not paused fails
\* and changes no asset balance.
C12_WithdrawOnlyWhenPaused ==
    [][\A s \in Symbols :
          (~mbPaused /\ Call_MB_emergencyWithdraw(s)) =>
              (mbCall'.err # "none" /\ mbAssets' = mbAssets)]_vars


\* The operations of MasterBridge that a pause suspends.
PausableOps ==
    {"registerAsset", "unregisterAsset", "lockTokens", "unlockTokens",
     "mintTokens", "burnTokens", "processTransaction", "addValidator",
     "removeValidator"}

\* C24: while the bridge is paused, registerAsset, unregisterAsset, lockTokens,
\* unlockTokens, mintTokens, burnTokens, processTransaction, addValidator and
\* removeValidator each fail with the BridgeError of a paused bridge and leave
\* assets, ledger and validator set unchanged; on a bridge that is not paused
\* (after unpause) none of them is refused for that reason.
C24_PausedRejects ==
    /\ (mbPaused /\ mbCall.op \in PausableOps) => mbCall.err = ErrPaused
    /\ (~mbPaused /\ mbCall.op \in PausableOps) => mbCall.err # ErrPaused
    /\ \A s \in Symbols :
         LET p == mbPaused
             ok(r) == /\ (r.err = ErrPaused) <=> p
                      /\ p => r.assets = mbAssets
         IN /\ ok(MB_unregisterAsset(mbAssets, p, s))
            /\ \A t \in TokenAddrs : ok(MB_registerAsset(mbAssets, p, s, t))
            /\ \A a \in Amounts :
                 /\ ok(MB_lockTokens(mbAssets, p, s, a))
                 /\ ok(MB_unlockTokens(mbAssets, p, s, a))
                 /\ ok(MB_mintTokens(mbAssets, p, s, a))
                 /\ ok(MB_burnTokens(mbAssets, p, s, a))
    /\ \A vs \in SUBSET ValidatorIds, v \in ValidatorIds, p \in BOOLEAN :
         \A r \in {MB_addValidator(vs, p, v), MB_removeValidator(vs, p, v)} :
            /\ (r.err = ErrPaused) <=> p
            /\ p => r.validators = vs
    /\ \A h \in TxHashes, p \in BOOLEAN :
         LET r == MB_processTransaction(mbTransactions, p, h)
         IN /\ (r.err = ErrPaused) <=> p
            /\ p => r.transactions = mbTransactions

\* C24 witness: on a paused bridge that holds a locked balance, lockTokens has
\* been refused.
C24_Witness ==
    /\ mbPaused
    /\ mbCall.op = "lockTokens" /\ mbCall.err = ErrPaused
    /\ \E s \in DOMAIN mbAssets : mbAssets[s].lockedAmount > 0

\* C28: an asset's lockedAmount and mintedAmount change only as the effect of
\* a successful lockTokens, unlockTokens, mintTokens or burnTokens; every other
\* bridge operation (pause, unpause, emergencyWithdraw, ...) leaves the
\* balances of a registered asset unchanged.
C28_BalancesFrame ==
    [][\A s \in (DOMAIN mbAssets) \cap (DOMAIN mbAssets') :
          (\/ mbAssets'[s].lockedAmount # mbAssets[s].lockedAmount
           \/ mbAssets'[s].mintedAmount # mbAssets[s].mintedAmount)
          => /\ mbCall'.op \in {"lockTokens", "unlockTokens", "mintTokens", "burnTokens"}
             /\ mbCall'.err = "none"]_vars

\* The calls of `calls` made one after the other on `assets`: the balances
\* they leave and the error of each.
RECURSIVE Sequentially(_, _)
Sequentially(assets, calls) ==
    IF calls = <<>> THEN [assets |-> assets, errs |-> <<>>]
    ELSE LET r == MB_balanceOp(calls[1].op, assets, FALSE, calls[1].symbol, calls[1].amount)
             rest == Sequentially(r.assets, Tail(calls))
         IN [assets |-> rest.assets, errs |-> <<r.err>> \o rest.errs]

\* The assets as registerAsset made them.
AsRegistered(assets) ==
    [s \in DOMAIN assets |-> NewAssetInfo(s, assets[s].tokenAddress)]

\* C34: whatever the interleaving of the concurrently issued lockTokens,
\* unlockTokens, mintTokens and burnTokens calls, once every call has settled
\* the balances and the outcome of every call are those of the same calls made
\* one after the other in some order (no update is lost, and no unlock or burn
\* succeeds on balance another call has consumed); no balance goes negative.
C34_Serializable ==
    /\ \A s \in DOMAIN mbAssets :
          mbAssets[s].lockedAmount >= 0 /\ mbAssets[s].mintedAmount >= 0
    /\ (\A c \in ConcCallers : mbcPending[c] = NoPending)
          => \E p \in Permutations(DOMAIN mbcLog) :
                LET calls == [i \in DOMAIN mbcLog |-> mbcLog[p[i]]]
                    serial == Sequentially(AsRegistered(mbAssets), calls)
                IN /\ serial.assets = mbAssets
                   /\ \A i \in DOMAIN calls : serial.errs[i] = calls[i].err

\* Two callers' calls on one symbol were in flight together, an unlock among
\* them was refused and another succeeded, and all have settled.
C34_Witness ==
    /\ \A c \in ConcCallers : mbcPending[c] = NoPending
    /\ Len(mbcLog) = MaxConcCalls
    /\ \E i, j \in DOMAIN mbcLog :
          /\ mbcLog[i].op = "unlockTokens" /\ mbcLog[i].err = ErrInsufficientLocked
          /\ mbcLog[j].op = "unlockTokens" /\ mbcLog[j].err = "none"
          /\ mbcLog[i].symbol = mbcLog[j].symbol
          /\ i < j

\* ------------------------------------------------------ AssetManager claims

\* The token addresses registered under any symbol.
AMRegisteredAddresses == {amAssets[s].tokenAddress : s \in DOMAIN amAssets}

\* C8: in every reachable state of the registry, registerAsset(symbol,
\* tokenAddress) fails with AssetError and leaves both maps unchanged if the
\* symbol is registered or the token address is registered under any symbol;
\* and a registerAsset that follows a successful unregisterAsset(symbol), with
\* the same symbol and the token address it had, succeeds and stores them.
C8_RegistryUniqueness ==
    /\ \A s \in Symbols, t \in TokenAddrs :
          (s \in DOMAIN amAssets \/ t \in AMRegisteredAddresses) =>
              LET r == AM_registerAsset(amAssets, amTokenAddresses, s, t) IN
              /\ r.err \in {ErrSymbolRegistered, ErrAddressRegistered}
              /\ r.assets = amAssets
              /\ r.tokenAddresses = amTokenAddresses
    /\ (amPrev.op = "unregisterAsset" /\ amPrev.err = "none"
        /\ amCall.op = "registerAsset" /\ amCall.symbol = amPrev.symbol
        /\ amCall.tokenAddress = amPrev.tokenAddress) =>
          /\ amCall.err = "none"
          /\ amCall.symbol \in DOMAIN amAssets
          /\ amAssets[amCall.symbol].tokenAddress = amCall.tokenAddress

\* C8 witness: a symbol was unregistered and then registered again with the
\* token address it had, while another symbol holds another address.
C8_Witness ==
    /\ amPrev.op = "unregisterAsset" /\ amPrev.err = "none"
    /\ amCall.op = "registerAsset" /\ amCall.err = "none"
    /\ amCall.symbol = amPrev.symbol /\ amCall.tokenAddress = amPrev.tokenAddress
    /\ Cardinality(DOMAIN amAssets) = 2

\* A registration refused because its token address is registered under
\* another symbol.
C8_WitnessRefused ==
    /\ amCall.op = "registerAsset" /\ amCall.err = ErrAddressRegistered
    /\ amCall.symbol \notin DOMAIN amAssets
    /\ \E s \in DOMAIN amAssets : amAssets[s].tokenAddress = amCall.tokenAddress

\* The two maps of the registry are exact inverses of each other.
AMInverse(assets, tokenAddresses) ==
    \A s \in AMSymbols, a \in TokenAddrs :
        (s \in DOMAIN assets /\ assets[s].tokenAddress = a)
            <=> (a \in DOMAIN tokenAddresses /\ tokenAddresses[a] = s)

\* unregisterAsset of a registered symbol removes the entry of both maps.
AMUnregisterRemovesBoth ==
    \A s \in DOMAIN amAssets :
        LET r == AM_unregisterAsset(amAssets, amTokenAddresses, s) IN
        /\ r.err = "none"
        /\ s \notin DOMAIN r.assets
        /\ amAssets[s].tokenAddress \notin DOMAIN r.tokenAddresses

\* C40: in every reachable state of the registry the symbol map and the
\* token-address map are exact inverses, getAssetSymbol(getAssetAddress(s))
\* returns s for every registered symbol s, and unregisterAsset removes the
\* entries of both maps.
C40_RegistryInverse ==
    /\ AMInverse(amAssets, amTokenAddresses)
    /\ \A s \in DOMAIN amAssets :
          LET a == AM_getAssetAddress(amAssets, s)
              r == AM_getAssetSymbol(amTokenAddresses, a.value)
          IN a.err = "none" /\ r.err = "none" /\ r.value = s
    /\ AMUnregisterRemovesBoth

\* The part of C40 about the maps alone, without the two lookups.
AMMapsConsistent == AMInverse(amAssets, amTokenAddresses) /\ AMUnregisterRemovesBoth

\* --------------------------------------------------- SecurityManager claims

\* C7: of the transfers one sender submits to validateTransaction within
\* timeWindow, at most maxTransactions are admitted (the next one is rejected
\* with 'Rate limit exceeded').
C7_RateLimit ==
    \A a \in DOMAIN secAdmitted :
        Len(AdmittedInWindow(secAdmitted[a], secNow)) <= maxTransactions

\* C7, second sentence: each admitted transfer is recorded in the sender's
\* timestamp history.
C7_AdmittedRecorded ==
    \A a \in DOMAIN secAdmitted :
        \A i \in 1..Len(secAdmitted[a]) :
            /\ a \in DOMAIN secTransactionHistory
            /\ \E j \in 1..Len(secTransactionHistory[a]) :
                  secTransactionHistory[a][j] = secAdmitted[a][i]



\* C11: while emergency mode is active (after a successful enableEmergencyMode
\* and before the next successful disableEmergencyMode), validateTransaction
\* rejects every transfer with the emergency-mode SecurityError, whatever the
\* sender, recipient and gas price, and before any other check is evaluated
\* (the rate-limit check, which rewrites the sender's history, has not run).
C11_EmergencyRejectsAll ==
    /\ (secCall.op = "enableEmergencyMode" /\ secCall.err = "none") => secEmergencyMode
    /\ (secCall.op = "disableEmergencyMode" /\ secCall.err = "none") => ~secEmergencyMode
    /\ (secCall.op = "validateTransaction" /\ secEmergencyMode) =>
            secCall.err = ErrEmergencyMode
    /\ secEmergencyMode =>
         \A from \in SecAddrs, to \in SecAddrs, g \in GasPrices :
            LET r == Sec_validateTransaction(secEmergencyMode, secBlacklistEnabled,
                         secWhitelistEnabled, secBlacklist, secWhitelist,
                         secTransactionHistory, secNow, from, to, g)
            IN /\ r.err = ErrEmergencyMode
               /\ r.transactionHistory = secTransactionHistory

\* C11 witness: a transfer rejected for emergency mode while the whitelist,
\* which holds neither address, is enforced and the sender's history holds an
\* entry the rate-limit check would drop.
C11_Witness ==
    /\ secEmergencyMode
    /\ secCall.op = "validateTransaction" /\ secCall.err = ErrEmergencyMode
    /\ secWhitelistEnabled
    /\ \E a \in DOMAIN secTransactionHistory :
          RecentHistory(secTransactionHistory[a], secNow) # secTransactionHistory[a]


\* C14: enableEmergencyMode fails with the cooldown SecurityError, leaving
\* emergency mode off, whenever less than emergencyDelay has elapsed since the
\* preceding successful disableEmergencyMode.
C14_EnableCooldown ==
    [][(/\ secLastDisable # Never
        /\ ~secEmergencyMode
        /\ secNow - secLastDisable < emergencyDelay
        /\ Call_Sec_enableEmergencyMode) =>
            (secCall'.err = ErrCooldown /\ ~secEmergencyMode')]_vars

\* C15: disableEmergencyMode called less than emergencyDelay after the
\* enableEmergencyMode that activated emergency mode fails with a SecurityError
\* and emergency mode stays active.
C15_DisableCooldown ==
    [][(/\ secEmergencyMode
        /\ secNow - secLastEmergencyTrigger < emergencyDelay
        /\ Call_Sec_disableEmergencyMode) =>
            (secCall'.err # "none" /\ secEmergencyMode')]_vars

\* C25: address-list enforcement.  While the blacklist is enabled
\* validateTransaction rejects every transfer whose sender or recipient is on
\* the blacklist; while the whitelist is enabled it rejects every transfer whose
\* sender or recipient is not on the whitelist.  Addresses are compared without
\* regard to letter case, and an address that has been removed from a list is
\* treated as absent by the next call.
ListVerdict(from, to) ==
    Sec_validateTransaction(secEmergencyMode, secBlacklistEnabled,
        secWhitelistEnabled, secBlacklist, secWhitelist, secTransactionHistory,
        secNow, from, to, maxGasPrice)

C25_ListEnforcement ==
    /\ \A from \in ListAddrs, to \in ListAddrs :
         LET onBlacklist == toLowerCase(from) \in secBlacklist
                            \/ toLowerCase(to) \in secBlacklist
             offWhitelist == toLowerCase(from) \notin secWhitelist
                             \/ toLowerCase(to) \notin secWhitelist
             r == ListVerdict(from, to)
         IN /\ (secBlacklistEnabled /\ onBlacklist) => r.err = ErrBlacklisted
            /\ (secWhitelistEnabled /\ offWhitelist) => r.err # "none"
            /\ (~(secBlacklistEnabled /\ onBlacklist)
                /\ ~(secWhitelistEnabled /\ offWhitelist)) =>
                   r.err \notin {ErrBlacklisted, ErrNotWhitelisted}
    /\ \A a \in ListAddrs :
         LET removedB == Sec_removeFromBlacklist(secBlacklist, a)
             removedW == Sec_removeFromWhitelist(secWhitelist, a)
         IN /\ \A spelling \in ListAddrs :
                 toLowerCase(spelling) = toLowerCase(a) =>
                     /\ ~Sec_isBlacklisted(removedB, spelling)
                     /\ secWhitelistEnabled =>
                            ~Sec_isWhitelisted(secWhitelistEnabled, removedW, spelling)
    /\ (secCall.op = "validateTransaction" /\ secCall.err = "none") =>
          /\ secBlacklistEnabled =>
                 secCall.from \notin secBlacklist /\ secCall.to \notin secBlacklist
          /\ secWhitelistEnabled =>
                 secCall.from \in secWhitelist /\ secCall.to \in secWhitelist

\* A transfer between two different whitelisted accounts was admitted while
\* both lists were enforced.
C25_Witness ==
    /\ secCall.op = "validateTransaction" /\ secCall.err = "none"
    /\ secBlacklistEnabled /\ secWhitelistEnabled
    /\ secCall.from # secCall.to
    /\ {secCall.from, secCall.to} \subseteq secWhitelist

\* The signer identities of a list that validateSignatures may count: the
\* recovered signers of the entries that are unexpired and, now, authorized.
CountedSigners(signers, now, txHash, signatures) ==
    {toLowerCase(verifyMessage(keccak256(txHash), signatures[i].signature)) :
        i \in {j \in DOMAIN signatures :
                  Sec_checkSignature(signers, now, keccak256(txHash), signatures[j]) = "none"}}

\* C31: validateSignatures returns true only for a list that holds at least
\* multiSigThreshold distinct signer identities, every one of them in the
\* signer set as it is now (after every addSigner and removeSigner) and with a
\* timestamp at most one hour old; a signer that submits twice counts once.
C31_SignatureSoundness ==
    \A signatures \in SigLists :
        LET r == Sec_validateSignatures(secSigners, secNow, "h1", signatures) IN
        (r.err = "none" /\ r.value)
            => /\ Cardinality(CountedSigners(secSigners, secNow, "h1", signatures))
                    >= multiSigThreshold
               /\ \A i \in DOMAIN signatures :
                      /\ secNow - signatures[i].timestamp <= signatureExpiry
                      /\ toLowerCase(verifyMessage(keccak256("h1"), signatures[i].signature)) \in secSigners

\* A call returned true on a list in which one signer appears twice.
C31_Witness ==
    /\ sigCall.op = "validateSignatures" /\ sigCall.err = "none" /\ sigCall.value
    /\ \E i, j \in DOMAIN sigCall.signatures :
          i # j /\ sigCall.signatures[i].signer = sigCall.signatures[j].signer

\* C32: whenever the list holds at least multiSigThreshold distinct,
\* unexpired, authorized signatures for the hash, validateSignatures returns
\* true, whatever else the list holds.
C32_SignatureCompleteness ==
    \A signatures \in SigLists :
        Cardinality(CountedSigners(secSigners, secNow, "h1", signatures)) >= multiSigThreshold
            => LET r == Sec_validateSignatures(secSigners, secNow, "h1", signatures)
               IN r.err = "none" /\ r.value

\* --------------------------------------------------- AvalancheBridge claims

SuccessStates == {"LOCKED", "MINTED", "BURNED", "UNLOCKED"}

\* C4: once a transaction's status is not PENDING, no bridge operation changes
\* that status again, and a processTransaction called on that hash fails.
C4_StateMonotonicity ==
    [][\A h \in DOMAIN avTransactions :
          avTransactions[h].status # "PENDING" =>
            /\ h \in DOMAIN avTransactions'
            /\ avTransactions'[h].status = avTransactions[h].status
            /\ Begin_Av_processTransaction(h) =>
                  (avCall'.op = "processTransaction" /\ avCall'.err # "none")]_vars

\* C5: of the processTransaction calls in flight on one PENDING hash, only the
\* one that performs the PENDING to non-PENDING transition succeeds: no call
\* succeeds on a transaction whose status another call has already moved out
\* of PENDING.
C5_DoubleClaimRejected ==
    ~ (/\ avCall.op = "processTransaction"
       /\ avCall.err = "none"
       /\ avCall.from \in SuccessStates \cup {"FAILED", "CANCELLED"})

\* C6: a transaction is in a success state only if the number of distinct
\* validator signatures held for it is at least the multi-signature threshold.
C6_ConsensusThreshold ==
    \A h \in DOMAIN avTransactions :
        avTransactions[h].status \in SuccessStates =>
            Cardinality({avTransactions[h].validatorSignatures[i] :
                            i \in 1..Len(avTransactions[h].validatorSignatures)})
                >= multiSigThreshold


\* C13: a processTransaction that completes on a hash whose record is PENDING
\* takes the transition the chain receipt dictates: a receipt reporting failure
\* moves the record to FAILED, a receipt reporting success moves it to a success
\* state, and with no receipt the call fails and the record stays PENDING; no
\* record leaves PENDING in a step that is not a processTransaction holding a
\* receipt.
C13_ReceiptDrivenTransition ==
    [][/\ \A k \in DOMAIN avInflight, receipt \in {"none", "success", "reverted"} :
            (/\ k.op = "processTransaction"
             /\ avTransactions[k.txHash].status = "PENDING"
             /\ Resume_Av_processTransaction(k, receipt)) =>
                CASE receipt = "none" ->
                        /\ avCall'.err # "none"
                        /\ avTransactions'[k.txHash].status = "PENDING"
                  [] receipt = "reverted" ->
                        avTransactions'[k.txHash].status = "FAILED"
                  [] receipt = "success" ->
                        avTransactions'[k.txHash].status \in SuccessStates
       /\ \A h \in DOMAIN avTransactions :
            (avTransactions[h].status = "PENDING"
             /\ avTransactions'[h].status # "PENDING") =>
                \E k \in DOMAIN avInflight, receipt \in {"success", "reverted"} :
                    k.txHash = h /\ Resume_Av_processTransaction(k, receipt)]_vars


\* C16: every successful lockTokens, unlockTokens, mintTokens or burnTokens
\* adds exactly one new record with status PENDING under a hash that was not in
\* the ledger before; no record is ever removed, and none is replaced by a
\* later operation (only its status may change).
C16_AppendOnlyLedger ==
    [][/\ \A k \in DOMAIN avInflight :
            (k.op \in AvTokenOps /\ Resume_Av_tokenOp(k, TRUE)) =>
                /\ TxHash(k.op, k.amount) \notin DOMAIN avTransactions
                /\ DOMAIN avTransactions' =
                      DOMAIN avTransactions \cup {TxHash(k.op, k.amount)}
                /\ avTransactions'[TxHash(k.op, k.amount)].status = "PENDING"
       /\ \A h \in DOMAIN avTransactions :
            /\ h \in DOMAIN avTransactions'
            /\ avTransactions'[h] =
                  [avTransactions[h] EXCEPT !.status = avTransactions'[h].status]]_vars


\* The success state of the operation that populates the given contract
\* function: a record under a mint hash was created by mintTokens, one under a
\* burn hash by burnTokens, one under a transfer hash by lockTokens or
\* unlockTokens.
MatchingSuccessStates(selector) ==
    CASE selector = Selector("mintTokens") -> {"MINTED"}
      [] selector = Selector("burnTokens") -> {"BURNED"}
      [] OTHER -> {"LOCKED", "UNLOCKED"}

\* C17: a transaction in a success state is in the one that matches the
\* operation that created it: LOCKED for lockTokens, MINTED for mintTokens,
\* BURNED for burnTokens, UNLOCKED for unlockTokens.
C17_StatusMatchesOperation ==
    \A h \in DOMAIN avTransactions :
        avTransactions[h].status \in SuccessStates =>
            avTransactions[h].status \in MatchingSuccessStates(h[1])


\* C18: every transaction that enters PENDING eventually leaves PENDING (one
\* that receives no chain confirmation is moved to CANCELLED).
C18_NoPendingForever ==
    \A h \in AvHashes :
        (h \in DOMAIN avTransactions /\ avTransactions[h].status = "PENDING")
            ~> (h \in DOMAIN avTransactions /\ avTransactions[h].status # "PENDING")


\* C19: in every reachable state the symbol of every PENDING transaction is a
\* registered asset (unregisterAsset does not remove an asset that a PENDING
\* transaction references).
C19_NoUnregisterWhilePending ==
    \A h \in DOMAIN avTransactions :
        avTransactions[h].status = "PENDING" =>
            avTransactions[h].symbol \in DOMAIN avAssets

C35_ConcurrentRegistration ==
    [][\A k \in DOMAIN avInflight :
          (/\ k.op = "registerAsset"
           /\ k.symbol \in DOMAIN avAssets
           /\ Resume_Av_registerAsset(k, TRUE)) =>
              /\ avCall'.err = ErrAlreadyRegistered
              /\ avAssets' = avAssets]_vars

\* C37: between the completion of pause() and the next unpause() no
\* transaction record is created and no transaction status changes, also not
\* by a call that passed its paused test before the pause and was suspended.
C37_PauseStopsInflight ==
    [][(avPaused /\ avPaused') => avTransactions' = avTransactions]_vars

\* C38: a hash is returned by getPendingTransactions if and only if
\* getTransactionStatus of the hash returns PENDING, and after a successful
\* processTransaction of a hash getTransactionStatus returns the status that
\* processTransaction stored.
C38_StatusAgreesWithLedger ==
    /\ \A h \in AvHashes : \A receipt \in Receipts(avTransactions, h) :
          LET r == Av_getTransactionStatus(avTransactions, h, receipt) IN
          (h \in Av_getPendingTransactions(avTransactions))
              <=> (r.err = "none" /\ r.value = "PENDING")
    /\ (avCall.op = "processTransaction" /\ avCall.err = "none") =>
          \A receipt \in Receipts(avTransactions, avCall.txHash) \ {"none"} :
              Av_getTransactionStatus(avTransactions, avCall.txHash, receipt).value
                  = avTransactions[avCall.txHash].status

\* --------------------------------------------------------- Validator claims

\* C21: slash with an address other than the validator's own fails with the
\* ValidationError and changes nothing; a successful slash sets stakeAmount to
\* 0, adds the whole previous stake to slashedAmount and deactivates the
\* validator; once a slash has succeeded the validator is never active again
\* and signTransaction and validateTransaction fail with the ValidationError.
C21_Slashing ==
    /\ \A stake \in StakeRange, slashed \in StakeRange, active \in BOOLEAN :
         /\ \A v \in ValAddrs \ {validatorAddress} :
              V_slash(stake, slashed, active, v) =
                  [err |-> ErrValCannotSlash, stakeAmount |-> stake,
                   slashedAmount |-> slashed, active |-> active]
         /\ LET r == V_slash(stake, slashed, active, validatorAddress)
            IN /\ r.err = "none"
               /\ r.stakeAmount = 0
               /\ r.slashedAmount = slashed + stake
               /\ r.stakeAmount + r.slashedAmount = stake + slashed
               /\ ~r.active
    /\ (valCall.op = "slash" /\ valCall.arg # validatorAddress) =>
            valCall.err = ErrValCannotSlash
    /\ (valCall.op = "slash" /\ valCall.err = "none") => valSlashed
    /\ valSlashed =>
         /\ ~valActive
         /\ valStakeAmount = 0
         /\ valCall.op \in {"signTransaction", "validateTransaction"} =>
                valCall.err = ErrValNotActive
         /\ \A h \in ValHashes :
              /\ V_signTransaction(valActive, valSignatures, h).err = ErrValNotActive
              /\ V_validateTransaction(valActive, h).err = ErrValNotActive

\* C21 witness: after a successful slash, and a refused slash of another
\* address, signTransaction has failed on a hash never signed.
C21_Witness ==
    /\ valSlashed
    /\ valCall.op = "signTransaction" /\ valCall.err = ErrValNotActive
    /\ valCall.arg \notin valSigned

\* C22: signTransaction on an inactive validator fails with the ValidationError
\* and records no attestation; getSignature(hash) succeeds if and only if this
\* validator earlier completed signTransaction(hash), and otherwise fails with
\* the ValidationError.
C22_SignAndGetSignature ==
    /\ \A h \in ValHashes :
         /\ ~valActive =>
              V_signTransaction(valActive, valSignatures, h) =
                  [err |-> ErrValNotActive, signatures |-> valSignatures]
         /\ V_getSignature(valSignatures, h).err = "none" <=> h \in valSigned
         /\ V_getSignature(valSignatures, h).err \in {"none", ErrValNoSignature}
    /\ valCall.op = "getSignature" =>
         (valCall.err = "none" <=> valCall.arg \in valSigned)
    /\ (valCall.op = "signTransaction" /\ valCall.err # "none") =>
         (valCall.err = ErrValNotActive /\ ~valActive)

\* C22 witness: on a deactivated validator, getSignature has failed for a hash
\* whose signTransaction was refused, while an earlier attestation is held.
C22_Witness ==
    /\ ~valActive
    /\ valCall.op = "getSignature" /\ valCall.err = ErrValNoSignature
    /\ valCall.arg \notin valSigned
    /\ valSigned # {}

\* ----------------------------------------------- AvalancheCeloBridge claims

\* C23: initialize succeeds at most once per bridge instance.  A call after a
\* successful initialize fails with BridgeError and changes no state;
\* isInitialized is false before the first successful initialize and true ever
\* after.
C23_InitializeOnce ==
    /\ cbInitSuccesses <= 1
    /\ cbInitialized <=> (cbInitSuccesses = 1)
    /\ cbInitialized =>
          LET r == CB_initialize(cbInitialized, valActive, amAssets,
                                 amTokenAddresses, cbSupportedTokens)
          IN /\ r.err = ErrCbInitFailed
             /\ r.initialized
             /\ r.assets = amAssets
             /\ r.tokenAddresses = amTokenAddresses
             /\ r.supportedTokens = cbSupportedTokens
    /\ (cbCall.op = "initialize" /\ cbCall.err = "none") => cbInitialized
    /\ MB_initialize(TRUE) = [err |-> ErrAlreadyInitialized, initialized |-> TRUE]
    /\ MB_initialize(FALSE) = [err |-> "none", initialized |-> TRUE]

\* initialize was refused on an initialized bridge although its validator is
\* active and none of the default assets is registered any more.
C23_Witness ==
    /\ cbInitialized
    /\ cbCall.op = "initialize" /\ cbCall.err = ErrCbInitFailed
    /\ valActive
    /\ DOMAIN amAssets \cap {"USDC", "USDT", "WBTC"} = {}

\* C26: rolling daily cap.  The total amount the bridge has accepted for one
\* token within the day never exceeds that token's dailyLimit, and a lock,
\* unlock, mint or burn whose amount would push the day's total above the limit
\* fails with 'Daily limit exceeded'.
C26_DailyCap ==
    /\ \A t \in DOMAIN cbSupportedTokens :
           cbAcceptedTotal[t] <= cbSupportedTokens[t].dailyLimit
    /\ \A s \in DOMAIN amAssets, a \in CbAmounts :
           LET t == amAssets[s].tokenAddress IN
           (/\ cbInitialized /\ ~cbPaused
            /\ t \in DOMAIN cbSupportedTokens
            /\ a >= cbSupportedTokens[t].minAmount
            /\ a <= cbSupportedTokens[t].maxAmount
            /\ cbAcceptedTotal[t] + a > cbSupportedTokens[t].dailyLimit)
           => CB_tokenOp(cbInitialized, cbPaused, amAssets, cbSupportedTokens,
                         cbDailyTransfers, s, a) = ErrCbDailyLimit

\* C27: registry total supply behind the facade.  After any sequence of
\* lockTokens, unlockTokens, mintTokens and burnTokens calls on the bridge,
\* AssetManager.getTotalSupply(symbol) equals the amounts of the successful
\* locks and mints minus those of the successful unlocks and burns of the symbol.
C27_TotalSupplyIsNet ==
    \A s \in CbSymbols :
        s \in DOMAIN amAssets =>
            AM_getTotalSupply(amAssets, s).value = cbNetSupply[s]

\* C39: an initialize that fails, of AvalancheCeloBridge or of
\* AvalancheBitcoinBridge, leaves isInitialized false and the registry with
\* exactly the assets it held before the call.
C39_InitializeAllOrNothing ==
    LET cb == CB_initialize(cbInitialized, valActive, amAssets, amTokenAddresses, cbSupportedTokens)
        bb == BB_initialize(bbInitialized, valActive, amAssets, amTokenAddresses, bbSupportedTokens)
    IN /\ (~cbInitialized /\ cb.err # "none")
             => /\ ~cb.initialized
                /\ cb.assets = amAssets /\ cb.tokenAddresses = amTokenAddresses
       /\ (~bbInitialized /\ bb.err # "none")
             => /\ ~bb.initialized
                /\ bb.assets = amAssets /\ bb.tokenAddresses = amTokenAddresses

\* ----------------------------------------------- CrossChainOptimizer claims

\* The places in the route of chain 1 to chain 2 of the protocols that pass
\* the filter.
Candidates(tokenAddress, securityPreference) ==
    {i \in 1..Len(optProtocols) :
        /\ optProtocols[i].securityLevel >= securityPreference
        /\ tokenAddress \in optProtocols[i].supportedTokens}

\* C29: route selection.  For a chain pair with a route, selectOptimalProtocol
\* returns a protocol whose securityLevel is at least the requested preference
\* and whose supportedTokens contain the token; among these candidates it
\* returns one of maximal score, the first in route order when several share the
\* maximal score.  When no candidate passes the filter it fails with an error
\* and optimizeCrossChainTransfer adds no transfer to the pending list.
C29_RouteSelection ==
    /\ \A tokenAddress \in OptTokens, securityPreference \in SecurityLevels :
         LET r == Opt_selectOptimalProtocol(optProtocols, 1, 2, tokenAddress,
                                            securityPreference)
             candidates == Candidates(tokenAddress, securityPreference)
         IN IF candidates = {}
            THEN /\ r.err # "none"
                 /\ \A gasEstimate \in GasEstimates :
                      LET o == Opt_optimizeCrossChainTransfer(optProtocols,
                                   optPendingTransfers, 1, 2, 4000, tokenAddress,
                                   securityPreference, gasEstimate, 1)
                      IN o.err # "none" /\ o.pendingTransfers = optPendingTransfers
            ELSE /\ r.err = "none"
                 /\ r.protocol.name \in candidates
                 /\ r.protocol = optProtocols[r.protocol.name]
                 /\ \A i \in candidates :
                      /\ Opt_protocolScore(optProtocols[i]) <= Opt_protocolScore(r.protocol)
                      /\ Opt_protocolScore(optProtocols[i]) = Opt_protocolScore(r.protocol)
                            => r.protocol.name <= i
    /\ (optCall.op = "optimizeCrossChainTransfer" /\ optCall.err = "none") =>
          /\ optPendingTransfers # <<>>
          /\ optPendingTransfers[Len(optPendingTransfers)].protocol = optCall.protocol
          /\ optCall.protocol \in Candidates(optCall.tokenAddress,
                                             optCall.securityPreference)

\* A transfer was given the first of two candidates that share the maximal
\* score, a candidate of lower score standing before them in the route.
C29_Witness ==
    /\ optCall.op = "optimizeCrossChainTransfer" /\ optCall.err = "none"
    /\ \E j \in Candidates(optCall.tokenAddress, optCall.securityPreference) :
          /\ j > optCall.protocol
          /\ Opt_protocolScore(optProtocols[j])
                 = Opt_protocolScore(optProtocols[optCall.protocol])
          /\ optProtocols[j] # [optProtocols[optCall.protocol] EXCEPT !.name = j]

\* A call found no candidate and left the pending list as it was.
C29_WitnessRefused ==
    /\ optCall.op = "optimizeCrossChainTransfer" /\ optCall.err # "none"
    /\ optCall.toChain = 2
    /\ Candidates(optCall.tokenAddress, optCall.securityPreference) = {}
    /\ optPendingTransfers # <<>>

\* The route of the input transfer a submitted item stands for.
RouteOf(item) ==
    <<optPendingTransfers[item.id].fromChain, optPendingTransfers[item.id].toChain>>

SameGroup(x, y) == x.tokenAddress = y.tokenAddress /\ RouteOf(x) = RouteOf(y)

C36_ScoreBound ==
    \A i \in DOMAIN optProtocols :
        Opt_protocolScore(optProtocols[i]) \in 0..30000

\* ----------------------------------------------------- MultiChainWallet claims

\* C33: a bridgeTokens call invokes the source bridge's lockTokens only after
\* validateTransaction has admitted it, and a call that validation rejected
\* has invoked no lockTokens and written no history and no analytics record.
C33_GateBeforeLock ==
    \A c \in WalletCallers :
        /\ wCalls[c].locked => wCalls[c].admitted
        /\ wCalls[c].recorded => wCalls[c].locked
        /\ wCalls[c].analysed => wCalls[c].recorded
        /\ wCalls[c].err \in ValidationErrors
              => ~wCalls[c].locked /\ ~wCalls[c].recorded /\ ~wCalls[c].analysed
        /\ wCalls[c].pc \in {"lock", "history", "analytics"} => wCalls[c].admitted

\* A call was rejected by validation after an earlier call had been admitted,
\* had locked and had been recorded.
C33_Witness ==
    \E c \in WalletCallers :
        /\ wCalls[c].err \in ValidationErrors \ {ErrNotAFunction}
        /\ c \in wAnalytics

\* ------------------------------------------------------ emergency mode claims

\* C10: while emergency mode is enabled, every lockTokens call on a bridge
\* fails and changes no balance. (The claim names the error, a SecurityError;
\* the formula asks only that the call fail, so that a call refused for another
\* reason does not count against it.)
C10_EmergencyBlocksLock ==
    [][\A s \in Symbols, a \in Amounts :
          (secEmergencyMode /\ Call_MB_lockTokens(s, a)) =>
              (mbCall'.err # "none" /\ mbAssets' = mbAssets)]_vars

====
